---- MODULE Spec2Model ----
(***************************************************************************)
(* Contextual-bandit ranking engine of app/recommendation/linucb.py:       *)
(* the LinUCB model (A, b, dim, alpha, lambda_reg), its state file, and    *)
(* the request threads that score, update and save it.                     *)
(*                                                                         *)
(* Numbers are integers: feature vectors are small integer vectors, and    *)
(* results of linear solves are kept as exact fractions (numerator         *)
(* vector over the determinant), so equalities are exact.                  *)
(***************************************************************************)
EXTENDS Integers, Sequences, FiniteSets, Bags, TLC

\* ------------------------------------------------------------------ bounds
\* Feature dimension of the club model (38 in the program, scaled down).
Dim == 2
\* Request-handling threads of the serving process.
NThreads == 2
\* Operations (feedback, update, score, reset) started in one behaviour.
MaxOps == 3
\* Calls started in one behaviour of the concurrent specification.
MaxConcOps == 2
\* Times the process is stopped and started again in one behaviour.
MaxRestarts == 1
\* Clubs (and events) in the database, the candidates of a ranking.
NClubs == 3
\* Largest top_k a ranking is asked for.
MaxTopK == 2
\* Calls started in one behaviour of the serving specification.
MaxServeOps == 2
\* Dimension of the model of the scenario "fresh model, d = 4".
ScenarioDim == 4
\* Calls started in one behaviour of the scenario: an update, then a score.
ScenarioOps == 2

\* ------------------------------------------------- program constants
\* LinUCB(dim=38, alpha=1.0, lambda_reg=1.0)
Alpha == 1
LambdaReg == 1
\* data.get("lambda_reg", 1.0)
DefaultLambdaReg == 1
\* The dimensions of the program's fresh models, LinUCB(dim=38, ...) for
\* clubs and LinUCB(dim=24, ...) for events, which the encoders are to
\* meet.
DIM_CLUBS == 38
DIM_EVENTS == 24

Threads == 1..NThreads

\* The event model's dimension (24 in the program) is below the club
\* model's (38).
DimEvents == Dim - 1

Families == {"clubs", "events"}

\* ------------------------------------------------------- linear algebra
Eye(n, lam) == [i \in 1..n |-> [j \in 1..n |-> IF i = j THEN lam ELSE 0]]

Zeros(n) == [i \in 1..n |-> 0]

\* np.outer(phi, phi)
Outer(p, q) == [i \in 1..Len(p) |-> [j \in 1..Len(q) |-> p[i] * q[j]]]

MatAdd(M, N) == [i \in 1..Len(M) |-> [j \in 1..Len(M[i]) |-> M[i][j] + N[i][j]]]

VecAdd(u, v) == [i \in 1..Len(u) |-> u[i] + v[i]]

Scale(c, v) == [i \in 1..Len(v) |-> c * v[i]]

MatScale(c, M) == [i \in 1..Len(M) |-> Scale(c, M[i])]

RECURSIVE SumTo(_, _)
SumTo(f, n) == IF n = 0 THEN 0 ELSE f[n] + SumTo(f, n - 1)

\* phi @ theta
Dot(u, v) == SumTo([i \in 1..Len(u) |-> u[i] * v[i]], Len(u))

Minor(M, i, j) ==
    [r \in 1..(Len(M) - 1) |->
        [c \in 1..(Len(M) - 1) |->
            M[IF r < i THEN r ELSE r + 1][IF c < j THEN c ELSE c + 1]]]

RECURSIVE Det(_)
Det(M) ==
    IF Len(M) = 0 THEN 1
    ELSE IF Len(M) = 1 THEN M[1][1]
    ELSE SumTo([j \in 1..Len(M) |->
                  (IF j % 2 = 1 THEN 1 ELSE -1) * M[1][j] * Det(Minor(M, 1, j))],
               Len(M))

\* M with column j replaced by the vector v (Cramer's rule).
ReplaceCol(M, j, v) ==
    [r \in 1..Len(M) |-> [c \in 1..Len(M) |-> IF c = j THEN v[r] ELSE M[r][c]]]

\* np.linalg.solve(M, v): the solution x of M x = v as the exact fraction
\* num / den, den = det(M).  A singular M raises LinAlgError.
Solve(M, v) ==
    [num |-> [j \in 1..Len(M) |-> Det(ReplaceCol(M, j, v))], den |-> Det(M)]

Singular(M) == Det(M) = 0

LeadingBlock(M, n) == [i \in 1..n |-> [j \in 1..n |-> M[i][j]]]

IsSymmetric(M) == \A i, j \in 1..Len(M) : M[i][j] = M[j][i]

\* Sylvester's criterion: a symmetric matrix is positive-definite iff all
\* its leading principal minors are positive.
IsPositiveDefinite(M) ==
    /\ IsSymmetric(M)
    /\ \A n \in 1..Len(M) : Det(LeadingBlock(M, n)) > 0

\* ------------------------------------------------------------- inputs
UnitVec(n, k) == [i \in 1..n |-> IF i = k THEN 1 ELSE 0]

Ones(n) == [i \in 1..n |-> 1]

\* Feature vectors of the model's dimension: the bias-only vector (the
\* encoder's last component is the constant 1.0), a one-hot vector and the
\* all-ones vector.
Features == {UnitVec(Dim, Dim), UnitVec(Dim, 1), Ones(Dim)}

\* Vectors whose length disagrees with dim: one too short, one too long.
BadFeatures == {Ones(Dim - 1), Ones(Dim + 1)}

AnyFeatures == Features \cup BadFeatures

\* Faulty variant: a dislike counts as a negative reward.
RewardSigned(liked) == IF liked THEN 1 ELSE -1

\* reward = 1.0 if liked else 0.0
RewardOf(liked) == IF liked THEN 1 ELSE 0

\* ------------------------------------------------------ ghost history
\* A bag of accepted (phi, reward) events.
RECURSIVE SumPhiPhi(_, _, _)
SumPhiPhi(S, B, n) ==
    IF S = {} THEN Eye(n, 0)
    ELSE LET e == CHOOSE x \in S : TRUE
         IN  MatAdd(MatScale(CopiesIn(e, B), Outer(e[1], e[1])),
                    SumPhiPhi(S \ {e}, B, n))

RECURSIVE SumRewardPhi(_, _, _)
SumRewardPhi(S, B, n) ==
    IF S = {} THEN Zeros(n)
    ELSE LET e == CHOOSE x \in S : TRUE
         IN  VecAdd(Scale(CopiesIn(e, B) * e[2], e[1]),
                    SumRewardPhi(S \ {e}, B, n))

\* lambda*I + sum of phi phi^T over the bag B
ExpectedA(B, n, lam) == MatAdd(Eye(n, lam), SumPhiPhi(BagToSet(B), B, n))

\* sum of reward*phi over the bag B
ExpectedB(B, n) == SumRewardPhi(BagToSet(B), B, n)

OneEvent(phi, r) == SetToBag({<<phi, r>>})


\* -------------------------------------------------------------- state
VARIABLES
    proc,                  \* "up", or "failed": the module import raised
    GLOBAL_LINUCB_CLUBS,   \* the live club model: [dim, alpha, lambda_reg, A, b]
    file,                  \* the state file at STATE_PATH_CLUBS
    thread,                \* per request thread: position and locals
    nOps,                  \* operations started so far
    boots,                 \* times the process has been started again
    events,                \* ghost: bag of (phi, reward) applied to the live model
    snap,                  \* ghost: what a reader saw before / is to see after the last save
    GLOBAL_LINUCB_EVENTS,  \* the live event model
    fileEvents,            \* the state file at STATE_PATH_EVENTS
    rank,                  \* the rank_*_with_linucb call in progress: position and locals
    inst,                  \* ghost: identity of the object each global name is bound to
    enc,                   \* the encoder call: its arguments and what it gave
    sel,                   \* the select_top_events_with_llm call: arguments, reply, result
    Swipe                  \* the rows of the Swipe table

vars == <<proc, GLOBAL_LINUCB_CLUBS, file, thread, nOps, boots, events, snap,
          GLOBAL_LINUCB_EVENTS, fileEvents, rank, inst, enc, sel, Swipe>>

\* What the calls on the club model leave alone.
others == <<GLOBAL_LINUCB_EVENTS, fileEvents, rank, inst, enc, sel, Swipe>>

\* LinUCB.__init__
LinUCB(d, al, lam) ==
    [dim |-> d, alpha |-> al, lambda_reg |-> lam, A |-> Eye(d, lam), b |-> Zeros(d)]

\* Dimension of the family's fresh model: LinUCB(dim=38, ...) for clubs,
\* LinUCB(dim=24, ...) for events.
ConfiguredDim(fam) == IF fam = "clubs" THEN Dim ELSE DimEvents

\* Faulty variant: the event model is created with the club dimension.
FreshModelClubDim(fam) == LinUCB(Dim, Alpha, LambdaReg)

\* The model a family gets when from_state returned None.
FreshModel(fam) == LinUCB(ConfiguredDim(fam), Alpha, LambdaReg)

\* ---------------------------------------------------------- state file
\* An .npz file is a zip archive: one member per key, then a central
\* directory (written when the archive is closed) that records each
\* member's checksum.  mem holds the member data on disk (<<>> or -1: not
\* written), cd what the central directory describes, cd_ok whether a
\* central directory is on disk.  ev is ghost: the events the archive's
\* writer had seen applied.
NoMembers == [A |-> <<>>, b |-> <<>>, alpha |-> -1, dim |-> -1, lambda_reg |-> -1]

NoFile == [exists |-> FALSE, mem |-> NoMembers, cd_ok |-> FALSE, cd |-> NoMembers,
           ev |-> EmptyBag]

\* zipfile.ZipFile(path, mode="w"): the file is created or truncated.
Truncated == [exists |-> TRUE, mem |-> NoMembers, cd_ok |-> FALSE, cd |-> NoMembers,
              ev |-> EmptyBag]

\* np.load can read every member: the central directory is there and each
\* member's data matches the checksum the directory records.
Readable(f) == f.exists /\ f.cd_ok /\ f.mem = f.cd

\* LinUCB.to_state: references to A and b, float(alpha), int(dim),
\* float(lambda_reg).
to_state(m) ==
    [A |-> m.A, b |-> m.b, alpha |-> m.alpha, dim |-> m.dim,
     lambda_reg |-> m.lambda_reg]

\* Faulty variant: the stored b is not put back (obj.b stays the zero vector).
from_state_without_b(f) ==
    IF ~f.exists THEN [kind |-> "none"]
    ELSE IF ~Readable(f) THEN [kind |-> "error"]
    ELSE LET obj == LinUCB(f.mem.dim, f.mem.alpha, f.mem.lambda_reg)
         IN  [kind |-> "model", model |-> [obj EXCEPT !.A = f.mem.A]]

\* LinUCB.from_state: None when the file does not exist, an error when
\* np.load cannot read it, else cls(dim, alpha, lambda_reg) with A and b
\* replaced by the stored arrays.
from_state(f) ==
    IF ~f.exists THEN [kind |-> "none"]
    ELSE IF ~Readable(f) THEN [kind |-> "error"]
    ELSE LET lam == IF f.mem.lambda_reg = -1 THEN DefaultLambdaReg
                    ELSE f.mem.lambda_reg
             obj == LinUCB(f.mem.dim, f.mem.alpha, lam)
         IN  [kind |-> "model",
              model |-> [obj EXCEPT !.A = f.mem.A, !.b = f.mem.b]]

\* ------------------------------------------------------------ threads
Idle ==
    [pc |-> "idle", op |-> "none", phi |-> <<>>, reward |-> 0, k |-> 0, reg |-> 0,
     liked |-> FALSE, m0 |-> <<>>, obj |-> 0, user_id |-> 0, club_id |-> 0,
     h |-> NoMembers, hev |-> EmptyBag,
     rdA1 |-> <<>>, rdb1 |-> <<>>, rdA2 |-> <<>>,
     res |-> "none", ret |-> <<>>]

\* No rank call in progress.  scored and out are the locals of
\* rank_*_with_linucb; nEnc and nScore count the calls it made to the
\* encoder and to score; obj is the object the global name gave it.
RankIdle ==
    [pc |-> "idle", fam |-> "none", user |-> 0, cands |-> <<>>, top_k |-> 0,
     i |-> 0, scored |-> <<>>, out |-> <<>>, nEnc |-> 0, nScore |-> 0,
     res |-> "none", obj |-> 0]

\* No encoder call, no selection call in progress.
EncIdle == [pc |-> "idle"]

SelIdle == [pc |-> "idle"]

AllIdle == rank.pc = "idle" /\ \A t \in Threads : thread[t].pc = "idle"

\* Faulty variant: both names are bound to one object.
ConstructedShared(i) == [clubs |-> i.made + 1, events |-> i.made + 1, made |-> i.made + 1]

\* The objects a module import binds the two global names to: two new ones.
Constructed(i) == [clubs |-> i.made + 1, events |-> i.made + 2, made |-> i.made + 2]

Init ==
    /\ proc = "up"
    /\ GLOBAL_LINUCB_CLUBS = LinUCB(Dim, Alpha, LambdaReg)
    /\ file = NoFile
    /\ thread = [t \in Threads |-> Idle]
    /\ nOps = 0
    /\ boots = 0
    /\ events = EmptyBag
    /\ snap = [prev |-> from_state(NoFile), new |-> from_state(NoFile)]
    /\ GLOBAL_LINUCB_EVENTS = FreshModel("events")
    /\ fileEvents = NoFile
    /\ rank = RankIdle
    /\ inst = Constructed([made |-> 0])
    /\ enc = EncIdle
    /\ sel = SelIdle
    /\ Swipe = <<>>

Begin(t, o, p, r, lk) ==
    /\ proc = "up"
    /\ thread[t].pc = "idle"
    /\ rank.pc = "idle"
    /\ nOps < MaxOps
    /\ nOps' = nOps + 1
    /\ thread' = [thread EXCEPT ![t] =
                    [Idle EXCEPT !.pc = "check", !.op = o, !.phi = p, !.reward = r,
                                 !.liked = lk, !.m0 = GLOBAL_LINUCB_CLUBS,
                                 !.obj = inst.clubs]]
    /\ UNCHANGED <<others, proc, GLOBAL_LINUCB_CLUBS, file, boots, events, snap>>

\* update_global_linucb_from_swipe(user, club, liked); p is
\* build_feature_vector(user, club)
StartFeedback(t, p, liked) == Begin(t, "feedback", p, RewardOf(liked), liked)

\* LinUCB.update_from_features(phi, reward)
StartUpdate(t, p, r) == Begin(t, "update", p, r, r = 1)

\* LinUCB.score(phi)
StartScore(t, p) == Begin(t, "score", p, 0, FALSE)

\* Faulty variant: only a vector that is too short is rejected (a longer one would be
\* cut to dim).
DimensionTooShort(p, m) == Len(p) < m.dim

\* phi.shape[0] != self.dim
DimensionMismatch(p, m) == Len(p) # m.dim

\* Element k of the d x d matrix, in the row-major order of the in-place add.
RowOf(kk, d) == ((kk - 1) \div d) + 1

ColOf(kk, d) == ((kk - 1) % d) + 1

\* Faulty variant: the outer product is subtracted.
SubOuterElement(old, p, r, c) == old - p[r] * p[c]

\* One element of A += np.outer(phi, phi)
AddOuterElement(old, p, r, c) == old + p[r] * p[c]

\* Faulty variant: the reward is ignored, b += phi.
AddPhiIgnoringReward(bv, r, p) == VecAdd(bv, p)

\* Faulty variant: b -= reward * phi.
SubRewardPhi(bv, r, p) == VecAdd(bv, Scale(-r, p))

\* b += reward * phi
AddRewardPhi(bv, r, p) == VecAdd(bv, Scale(r, p))

\* Faulty variant: update_global_linucb_from_swipe returns without saving.
AfterUpdateNoSave(o) == "done"

\* The position after update_from_features returns: update_global_linucb_from_swipe
\* goes on to save_state, a direct update is finished.
AfterUpdate(o) == IF o = "feedback" THEN "save_open" ELSE "done"

\* update_from_features: the dimension check.
UpdCheck(t) ==
    /\ thread[t].pc = "check"
    /\ thread[t].op \in {"feedback", "update"}
    /\ thread' = [thread EXCEPT ![t] =
          IF DimensionMismatch(thread[t].phi, GLOBAL_LINUCB_CLUBS)
          THEN [thread[t] EXCEPT !.pc = "raised", !.res = "ValueError"]
          ELSE [thread[t] EXCEPT !.pc = "add_load", !.k = 1]]
    /\ UNCHANGED <<others, proc, GLOBAL_LINUCB_CLUBS, file, nOps, boots, events, snap>>

\* self.A += np.outer(phi, phi): the in-place add walks the elements of the
\* shared array without holding a lock; each element is read ...
UpdLoadA(t) ==
    LET d == GLOBAL_LINUCB_CLUBS.dim
        r == RowOf(thread[t].k, d)
        c == ColOf(thread[t].k, d)
    IN  /\ thread[t].pc = "add_load"
        /\ thread' = [thread EXCEPT ![t] =
              [thread[t] EXCEPT !.pc = "add_store", !.reg = GLOBAL_LINUCB_CLUBS.A[r][c]]]
        /\ UNCHANGED <<others, proc, GLOBAL_LINUCB_CLUBS, file, nOps, boots, events, snap>>

\* ... and written back with the product added.
UpdStoreA(t) ==
    LET d == GLOBAL_LINUCB_CLUBS.dim
        r == RowOf(thread[t].k, d)
        c == ColOf(thread[t].k, d)
    IN  /\ thread[t].pc = "add_store"
        /\ GLOBAL_LINUCB_CLUBS' =
              [GLOBAL_LINUCB_CLUBS EXCEPT
                  !.A[r][c] = AddOuterElement(thread[t].reg, thread[t].phi, r, c)]
        /\ thread' = [thread EXCEPT ![t] =
              IF thread[t].k < d * d
              THEN [thread[t] EXCEPT !.pc = "add_load", !.k = @ + 1]
              ELSE [thread[t] EXCEPT !.pc = "add_b"]]
        /\ UNCHANGED <<others, proc, file, nOps, boots, events, snap>>

\* self.b += reward * phi
UpdB(t) ==
    /\ thread[t].pc = "add_b"
    /\ GLOBAL_LINUCB_CLUBS' =
          [GLOBAL_LINUCB_CLUBS EXCEPT
              !.b = AddRewardPhi(@, thread[t].reward, thread[t].phi)]
    /\ events' = events (+) OneEvent(thread[t].phi, thread[t].reward)
    /\ thread' = [thread EXCEPT ![t] =
          IF AfterUpdate(thread[t].op) = "done"
          THEN [thread[t] EXCEPT !.pc = "done", !.res = "ok"]
          ELSE [thread[t] EXCEPT !.pc = AfterUpdate(thread[t].op)]]
    /\ UNCHANGED <<others, proc, file, nOps, boots, snap>>

\* save_state -> np.savez(path, **state): the archive is opened for
\* writing at the final path, which truncates what was there.
SaveOpen(t) ==
    /\ thread[t].pc = "save_open"
    /\ file' = Truncated
    /\ snap' = [prev |-> from_state(file),
                new |-> [kind |-> "model", model |-> GLOBAL_LINUCB_CLUBS]]
    /\ thread' = [thread EXCEPT ![t] = [thread[t] EXCEPT !.pc = "save_A", !.h = NoMembers]]
    /\ UNCHANGED <<others, proc, GLOBAL_LINUCB_CLUBS, nOps, boots, events>>

\* Member "A": the array's contents as they are when the member is written.
SaveWriteA(t) ==
    LET st == to_state(GLOBAL_LINUCB_CLUBS)
    IN  /\ thread[t].pc = "save_A"
        /\ file' = [file EXCEPT !.exists = TRUE, !.mem.A = st.A]
        /\ thread' = [thread EXCEPT ![t] =
              [thread[t] EXCEPT !.pc = "save_b", !.h.A = st.A, !.hev = events]]
        /\ UNCHANGED <<others, proc, GLOBAL_LINUCB_CLUBS, nOps, boots, events, snap>>

\* Member "b".
SaveWriteB(t) ==
    LET st == to_state(GLOBAL_LINUCB_CLUBS)
    IN  /\ thread[t].pc = "save_b"
        /\ file' = [file EXCEPT !.exists = TRUE, !.mem.b = st.b]
        /\ thread' = [thread EXCEPT ![t] = [thread[t] EXCEPT !.pc = "save_meta", !.h.b = st.b]]
        /\ UNCHANGED <<others, proc, GLOBAL_LINUCB_CLUBS, nOps, boots, events, snap>>

\* Members "alpha", "dim", "lambda_reg".
SaveWriteMeta(t) ==
    LET st == to_state(GLOBAL_LINUCB_CLUBS)
    IN  /\ thread[t].pc = "save_meta"
        /\ file' = [file EXCEPT !.exists = TRUE, !.mem.alpha = st.alpha,
                                !.mem.dim = st.dim, !.mem.lambda_reg = st.lambda_reg]
        /\ thread' = [thread EXCEPT ![t] =
              [thread[t] EXCEPT !.pc = "save_close", !.h.alpha = st.alpha, !.h.dim = st.dim,
                        !.h.lambda_reg = st.lambda_reg]]
        /\ UNCHANGED <<others, proc, GLOBAL_LINUCB_CLUBS, nOps, boots, events, snap>>

\* Closing the archive writes the central directory of what this writer
\* wrote; save_state and update_global_linucb_from_swipe return.
SaveClose(t) ==
    /\ thread[t].pc = "save_close"
    /\ file' = [file EXCEPT !.exists = TRUE, !.cd_ok = TRUE, !.cd = thread[t].h,
                            !.ev = thread[t].hev]
    /\ thread' = [thread EXCEPT ![t] = [thread[t] EXCEPT !.pc = "done", !.res = "ok"]]
    /\ UNCHANGED <<others, proc, GLOBAL_LINUCB_CLUBS, nOps, boots, events, snap>>

\* Faulty variant: the score is the exploration bonus alone.
ucb_score_without_mean(A1, b1, A2, p, al) ==
    [mean |-> <<0, Det(A1)>>,
     var2 |-> <<Dot(p, Solve(A2, p).num), Det(A2)>>,
     alpha |-> al]

\* LinUCB._ucb_score as an exact value: mean = phi . solve(A1, b1),
\* var^2 = phi . solve(A2, phi), score = mean + alpha * sqrt(var^2).
ucb_score(A1, b1, A2, p, al) ==
    [mean |-> <<Dot(p, Solve(A1, b1).num), Det(A1)>>,
     var2 |-> <<Dot(p, Solve(A2, p).num), Det(A2)>>,
     alpha |-> al]

\* score(phi) on a model nobody is writing to.
Score(m, p) == ucb_score(m.A, m.b, m.A, p, m.alpha)

\* _ucb_score: the dimension check.
ScoreCheck(t) ==
    /\ thread[t].pc = "check"
    /\ thread[t].op = "score"
    /\ thread' = [thread EXCEPT ![t] =
          IF DimensionMismatch(thread[t].phi, GLOBAL_LINUCB_CLUBS)
          THEN [thread[t] EXCEPT !.pc = "raised", !.res = "ValueError"]
          ELSE [thread[t] EXCEPT !.pc = "solve1"]]
    /\ UNCHANGED <<others, proc, GLOBAL_LINUCB_CLUBS, file, nOps, boots, events, snap>>

\* theta_hat = self._theta_hat() = np.linalg.solve(self.A, self.b)
ScoreSolve1(t) ==
    /\ thread[t].pc = "solve1"
    /\ thread' = [thread EXCEPT ![t] =
          IF Singular(GLOBAL_LINUCB_CLUBS.A)
          THEN [thread[t] EXCEPT !.pc = "raised", !.res = "LinAlgError"]
          ELSE [thread[t] EXCEPT !.pc = "solve2", !.rdA1 = GLOBAL_LINUCB_CLUBS.A,
                         !.rdb1 = GLOBAL_LINUCB_CLUBS.b]]
    /\ UNCHANGED <<others, proc, GLOBAL_LINUCB_CLUBS, file, nOps, boots, events, snap>>

\* A_inv_phi = np.linalg.solve(self.A, phi); return mean + alpha * var
ScoreSolve2(t) ==
    /\ thread[t].pc = "solve2"
    /\ thread' = [thread EXCEPT ![t] =
          IF Singular(GLOBAL_LINUCB_CLUBS.A)
          THEN [thread[t] EXCEPT !.pc = "raised", !.res = "LinAlgError"]
          ELSE [thread[t] EXCEPT !.pc = "done", !.res = "ok",
                         !.rdA2 = GLOBAL_LINUCB_CLUBS.A,
                         !.ret = ucb_score(thread[t].rdA1, thread[t].rdb1, GLOBAL_LINUCB_CLUBS.A,
                                           thread[t].phi, GLOBAL_LINUCB_CLUBS.alpha)]]
    /\ UNCHANGED <<others, proc, GLOBAL_LINUCB_CLUBS, file, nOps, boots, events, snap>>

\* The call has returned or raised to its caller; the thread takes the
\* next request.
Return(t) ==
    /\ thread[t].pc \in {"done", "raised"}
    /\ thread' = [thread EXCEPT ![t] = Idle]
    /\ UNCHANGED <<others, proc, GLOBAL_LINUCB_CLUBS, file, nOps, boots, events, snap>>

\* Faulty variant: reset goes back to the default regularisation.
reset_to_defaults(m) ==
    [m EXCEPT !.lambda_reg = DefaultLambdaReg, !.A = Eye(m.dim, DefaultLambdaReg),
              !.b = Zeros(m.dim)]

\* Faulty variant: reset restores A and leaves b as it was.
reset_keeping_b(m) == [m EXCEPT !.A = Eye(m.dim, m.lambda_reg)]

\* LinUCB.reset
reset(m) == [m EXCEPT !.A = Eye(m.dim, m.lambda_reg), !.b = Zeros(m.dim)]

Reset ==
    /\ proc = "up"
    /\ AllIdle
    /\ nOps < MaxOps
    /\ nOps' = nOps + 1
    /\ GLOBAL_LINUCB_CLUBS' = reset(GLOBAL_LINUCB_CLUBS)
    /\ events' = EmptyBag
    /\ UNCHANGED <<others, proc, file, thread, boots, snap>>

\* The process stops at any point and is started again: importing the
\* module runs from_state(STATE_PATH_CLUBS); None gives a fresh
\* LinUCB(dim=38, alpha=1.0, lambda_reg=1.0), an unreadable file makes the
\* import raise.
ImportModule ==
    LET loaded == from_state(file)
        loadedEvents == from_state(fileEvents)
    IN  /\ thread' = [t \in Threads |-> Idle]
        /\ rank' = RankIdle
        /\ proc' = IF loaded.kind = "error" \/ loadedEvents.kind = "error"
                   THEN "failed" ELSE "up"
        /\ GLOBAL_LINUCB_CLUBS' =
              IF loaded.kind = "model" THEN loaded.model ELSE FreshModel("clubs")
        /\ GLOBAL_LINUCB_EVENTS' =
              IF loadedEvents.kind = "model" THEN loadedEvents.model
              ELSE FreshModel("events")
        /\ inst' = Constructed(inst)
        /\ events' = IF loaded.kind = "model" THEN file.ev ELSE EmptyBag
        /\ UNCHANGED <<file, fileEvents, nOps, snap, enc, sel, Swipe>>

Restart ==
    /\ proc = "up"
    /\ boots < MaxRestarts
    /\ boots' = boots + 1
    /\ ImportModule

\* The process is started: app.recommendation.linucb is imported.
Startup ==
    /\ proc = "starting"
    /\ UNCHANGED boots
    /\ ImportModule

\* ------------------------------------------------------------ families
\* Faulty variant: both families share the club model.
ClubModelForAll(fam) == GLOBAL_LINUCB_CLUBS

\* The global name of a family's model.
LiveModel(fam) == IF fam = "clubs" THEN GLOBAL_LINUCB_CLUBS ELSE GLOBAL_LINUCB_EVENTS

\* STATE_PATH_CLUBS, STATE_PATH_EVENTS
StateFile(fam) == IF fam = "clubs" THEN file ELSE fileEvents

\* ------------------------------------------------------------ strings
\* A Python str is the sequence of its characters.  A tag string is
\* written with each word (a maximal run of characters other than the
\* comma and the blank) as one symbol.  None, where a str is expected, is
\* the value below.
None == <<"None">>

\* not s, for s a str or None
Falsy(s) == s = None \/ s = <<>>

UPPERCASE == <<"A", "B", "C", "D", "E", "F", "G", "H", "I", "J", "K", "L", "M", "N", "O", "P", "Q", "R", "S", "T", "U", "V", "W", "X", "Y", "Z">>

LOWERCASE == <<"a", "b", "c", "d", "e", "f", "g", "h", "i", "j", "k", "l", "m", "n", "o", "p", "q", "r", "s", "t", "u", "v", "w", "x", "y", "z">>

DIGITS == <<"0", "1", "2", "3", "4", "5", "6", "7", "8", "9">>

IsDigit(ch) == \E i \in 1..Len(DIGITS) : DIGITS[i] = ch

\* str.lower
lower(s) ==
    [i \in 1..Len(s) |->
        IF \E k \in 1..Len(UPPERCASE) : UPPERCASE[k] = s[i]
        THEN LOWERCASE[CHOOSE k \in 1..Len(UPPERCASE) : UPPERCASE[k] = s[i]]
        ELSE s[i]]

\* str.strip(): without the blanks at either end
RECURSIVE strip(_)
strip(s) ==
    IF s = <<>> THEN s
    ELSE IF s[1] = " " THEN strip(Tail(s))
    ELSE IF s[Len(s)] = " " THEN strip(SubSeq(s, 1, Len(s) - 1))
    ELSE s

RECURSIVE SplitFrom(_, _, _)
SplitFrom(s, i, cur) ==
    IF i > Len(s) THEN (IF cur = <<>> THEN <<>> ELSE <<cur>>)
    ELSE IF s[i] = " "
         THEN (IF cur = <<>> THEN <<>> ELSE <<cur>>) \o SplitFrom(s, i + 1, <<>>)
         ELSE SplitFrom(s, i + 1, Append(cur, s[i]))

\* str.split(): the maximal runs of characters other than blanks
split(s) == SplitFrom(s, 1, <<>>)

RECURSIVE SplitOnFrom(_, _, _, _)
SplitOnFrom(s, sep, i, cur) ==
    IF i > Len(s) THEN <<cur>>
    ELSE IF s[i] = sep THEN <<cur>> \o SplitOnFrom(s, sep, i + 1, <<>>)
    ELSE SplitOnFrom(s, sep, i + 1, Append(cur, s[i]))

\* str.split(sep): the pieces between separators, empty ones included
split_on(s, sep) == SplitOnFrom(s, sep, 1, <<>>)

\* s[:n]
Take(s, n) == SubSeq(s, 1, IF n < Len(s) THEN n ELSE Len(s))

RECURSIVE DecimalValue(_)
DecimalValue(ds) ==
    IF ds = <<>> THEN 0
    ELSE 10 * DecimalValue(SubSeq(ds, 1, Len(ds) - 1))
         + (CHOOSE k \in 1..Len(DIGITS) : DIGITS[k] = ds[Len(ds)]) - 1

\* int(s) of a str: blanks around, an optional sign, then digits with
\* single underscores allowed between them; anything else raises
\* ValueError.
int(s) ==
    LET t == strip(s)
        signed == t # <<>> /\ t[1] \in {"+", "-"}
        body == IF signed THEN Tail(t) ELSE t
        wellFormed ==
            /\ body # <<>>
            /\ \A i \in 1..Len(body) : IsDigit(body[i]) \/ body[i] = "_"
            /\ IsDigit(body[1])
            /\ IsDigit(body[Len(body)])
            /\ \A i \in 1..(Len(body) - 1) : ~(body[i] = "_" /\ body[i + 1] = "_")
    IN  IF wellFormed
        THEN [raised |-> "none",
              value |-> (IF signed /\ t[1] = "-" THEN -1 ELSE 1)
                        * DecimalValue(SelectSeq(body, IsDigit))]
        ELSE [raised |-> "ValueError"]

\* The first index of x in the list s (list.index), 0 when x is not in s.
IndexOf(s, x) ==
    IF \E i \in 1..Len(s) : s[i] = x
    THEN CHOOSE i \in 1..Len(s) : s[i] = x /\ \A j \in 1..(i - 1) : s[j] # x
    ELSE 0

\* np.zeros(n) with entry k (counted from 1) set to 1.0; k = 0 sets none.
OneHot(n, k) == [i \in 1..n |-> IF i = k THEN 1 ELSE 0]

\* ----------------------------------------------------- feature encoder
YEAR_CATEGORIES == <<<<"f", "r", "e", "s", "h", "m", "a", "n">>, <<"s", "o", "p", "h", "o", "m", "o", "r", "e">>, <<"j", "u", "n", "i", "o", "r">>, <<"s", "e", "n", "i", "o", "r">>>>

DAY_ORDER == <<<<"m", "o", "n">>, <<"t", "u", "e">>, <<"w", "e", "d">>, <<"t", "h", "u">>, <<"f", "r", "i">>, <<"s", "a", "t">>, <<"s", "u", "n">>>>

\* The shared tag vocabulary, each tag a one-word string.
TAG_VOCAB ==
    <<<<"academic_stem_tech">>,
      <<"business_career">>,
      <<"creative_arts">>,
      <<"sports">>,
      <<"gaming">>,
      <<"service">>,
      <<"activism_environment">>,
      <<"politics">>,
      <<"cultural">>,
      <<"faith">>>>

\* Faulty variant: no bucket for the years outside YEAR_CATEGORIES.
_encode_year_without_other(year) ==
    IF Falsy(year) THEN OneHot(Len(YEAR_CATEGORIES), 0)
    ELSE OneHot(Len(YEAR_CATEGORIES), IndexOf(YEAR_CATEGORIES, lower(strip(year))))

\* _encode_year: one-hot over the four categories and, last, "other"
_encode_year(year) ==
    IF Falsy(year) THEN OneHot(5, 5)
    ELSE LET y == lower(strip(year))
         IN  IF IndexOf(YEAR_CATEGORIES, y) # 0
             THEN OneHot(5, IndexOf(YEAR_CATEGORIES, y))
             ELSE OneHot(5, 5)

\* parse_tags: the set of the tags a comma-separated string names.
parse_tags(tags_str) ==
    IF Falsy(tags_str) THEN {}
    ELSE LET pieces == split_on(tags_str, ",")
         IN  {strip(pieces[i]) : i \in {k \in 1..Len(pieces) : strip(pieces[k]) # <<>>}}

\* _encode_tags_as_multihot
_encode_tags_as_multihot(tag_set) ==
    [i \in 1..Len(TAG_VOCAB) |-> IF TAG_VOCAB[i] \in tag_set THEN 1 ELSE 0]

\* Faulty variant: a time part that int() rejects is not caught.
_encode_meeting_time_uncaught(meeting_time) ==
    IF Falsy(meeting_time) \/ Len(split(meeting_time)) < 2
    THEN [raised |-> "none", day_vec |-> OneHot(Len(DAY_ORDER), 0),
          bucket_vec |-> OneHot(3, 0)]
    ELSE LET parts == split(meeting_time)
             hour == int(split_on(parts[2], ":")[1])
         IN  IF hour.raised # "none" THEN [raised |-> hour.raised]
             ELSE [raised |-> "none",
                   day_vec |-> OneHot(Len(DAY_ORDER),
                                      IndexOf(DAY_ORDER, Take(lower(strip(parts[1])), 3))),
                   bucket_vec |->
                       IF 0 <= hour.value /\ hour.value < 12 THEN OneHot(3, 1)
                       ELSE IF 12 <= hour.value /\ hour.value < 17 THEN OneHot(3, 2)
                       ELSE IF 17 <= hour.value /\ hour.value <= 23 THEN OneHot(3, 3)
                       ELSE OneHot(3, 0)]

\* _encode_meeting_time: the day one-hot (Mon..Sun) and the time bucket
\* (morning, afternoon, evening) of "<day> <hour>:<minute>"; raised is
\* the exception that leaves the function.
_encode_meeting_time(meeting_time) ==
    IF Falsy(meeting_time)
    THEN [raised |-> "none", day_vec |-> OneHot(Len(DAY_ORDER), 0),
          bucket_vec |-> OneHot(3, 0)]
    ELSE LET parts == split(meeting_time)
         IN  IF Len(parts) >= 2
             THEN LET raw_day == Take(lower(strip(parts[1])), 3)
                      hour_str == split_on(parts[2], ":")[1]
                      hour == int(hour_str)
                  IN  [raised |->
                           IF hour.raised \in {"none", "ValueError", "IndexError"}
                           THEN "none" ELSE hour.raised,
                       day_vec |-> OneHot(Len(DAY_ORDER), IndexOf(DAY_ORDER, raw_day)),
                       bucket_vec |->
                           IF hour.raised # "none" THEN OneHot(3, 0)
                           ELSE IF 0 <= hour.value /\ hour.value < 12 THEN OneHot(3, 1)
                           ELSE IF 12 <= hour.value /\ hour.value < 17 THEN OneHot(3, 2)
                           ELSE IF 17 <= hour.value /\ hour.value <= 23 THEN OneHot(3, 3)
                           ELSE OneHot(3, 0)]
             ELSE [raised |-> "none", day_vec |-> OneHot(Len(DAY_ORDER), 0),
                   bucket_vec |-> OneHot(3, 0)]

\* The greatest common divisor of two naturals.
RECURSIVE Gcd(_, _)
Gcd(a, b) == IF b = 0 THEN a ELSE Gcd(b, a % b)

\* _compute_tag_interactions: the overlap count and the Jaccard
\* similarity, the quotient as <<numerator, denominator>> in lowest terms.
_compute_tag_interactions(user_tags, club_tags) ==
    LET overlap == user_tags \cap club_tags
        union == user_tags \cup club_tags
        g == Gcd(Cardinality(overlap), Cardinality(union))
    IN  [overlap_count |-> Cardinality(overlap),
         jaccard |-> IF Cardinality(union) > 0
                     THEN <<Cardinality(overlap) \div g, Cardinality(union) \div g>>
                     ELSE <<0, 1>>]

\* build_feature_vector(user, club): year (5), user tags (10), club tags
\* (10), meeting day (7), time bucket (3), overlap and Jaccard (2), bias (1)
build_feature_vector(user, club) ==
    LET year_vec == _encode_year(user.year)
        user_tags == parse_tags(user.interests)
        club_tags == parse_tags(club.tags)
        mt == _encode_meeting_time(club.meeting_time)
        inter == _compute_tag_interactions(user_tags, club_tags)
    IN  IF mt.raised # "none" THEN [raised |-> mt.raised]
        ELSE [raised |-> "none",
              phi |-> year_vec
                      \o _encode_tags_as_multihot(user_tags)
                      \o _encode_tags_as_multihot(club_tags)
                      \o mt.day_vec
                      \o mt.bucket_vec
                      \o <<inter.overlap_count, inter.jaccard>>
                      \o <<1>>]

\* encode_tags_to_vector: the multi-hot vector of a comma-separated tag
\* string; unknown tags are ignored.
encode_tags_to_vector(tags_str) ==
    IF Falsy(tags_str) THEN OneHot(Len(TAG_VOCAB), 0)
    ELSE LET pieces == split_on(tags_str, ",")
             tags == {strip(pieces[i]) :
                         i \in {k \in 1..Len(pieces) : strip(pieces[k]) # <<>>}}
         IN  [i \in 1..Len(TAG_VOCAB) |-> IF TAG_VOCAB[i] \in tags THEN 1 ELSE 0]

\* encode_user_interests: user.interests or ""
encode_user_interests(user) ==
    encode_tags_to_vector(IF Falsy(user.interests) THEN <<>> ELSE user.interests)

\* event.start_time is None
NoTime == [none |-> TRUE]

\* time_vec: [weekday_flag, weekend_flag, non_evening_flag, evening_flag];
\* a start time that is None gives is_weekend = 0 and is_evening = 0.
time_vec(start_time) ==
    LET is_weekend == IF start_time = NoTime THEN 0
                      ELSE IF start_time.weekday >= 5 THEN 1 ELSE 0
        is_evening == IF start_time = NoTime THEN 0
                      ELSE IF 17 <= start_time.hour /\ start_time.hour <= 22 THEN 1 ELSE 0
    IN  <<1 - is_weekend, is_weekend, 1 - is_evening, is_evening>>

\* build_event_feature_vector(user, event): user interests (10), tags of
\* the event's club (10), then weekday, weekend, non-evening and evening
\* flags (4)
build_event_feature_vector(user, event) ==
    LET user_vec == encode_user_interests(user)
        club_tag_vec ==
            IF event.club # [none |-> TRUE]
            THEN encode_tags_to_vector(IF Falsy(event.club.tags) THEN <<>>
                                       ELSE event.club.tags)
            ELSE OneHot(Len(TAG_VOCAB), 0)
    IN  [raised |-> "none",
         phi |-> user_vec \o club_tag_vec \o time_vec(event.start_time)]

\* ----------------------------------------------------------- entities
Clubs == 1..NClubs

\* Two users, with different interests.
Users == {1, 2}

\* The rows behind the ids: odd users are interested in sports, odd clubs
\* are tagged sports, event e is an event of club e.
UserRow(u) ==
    [id |-> u, year |-> None, interests |-> IF u % 2 = 1 THEN <<"sports">> ELSE <<>>]

ClubRow(c) ==
    [id |-> c, tags |-> IF c % 2 = 1 THEN <<"sports">> ELSE <<>>, meeting_time |-> None]

EventRow(e) == [id |-> e, club |-> ClubRow(e), start_time |-> NoTime]

\* The models here have Dim and DimEvents dimensions, not 38 and 24: of
\* the club vector they see the overlap count, the club's sports tag and
\* (last) the bias term; of the event vector the user's and the club's
\* sports tag.
KeptOfClubVector ==
    [i \in 1..Dim |-> IF i = Dim THEN 38 ELSE IF i = 1 THEN 36 ELSE 19]

KeptOfEventVector == [i \in 1..DimEvents |-> IF i = 1 THEN 4 ELSE 14]

ClubVectors ==
    [u \in Users, c \in Clubs |->
        LET phi == build_feature_vector(UserRow(u), ClubRow(c)).phi
        IN  [i \in 1..Dim |-> phi[KeptOfClubVector[i]]]]

EventVectors ==
    [u \in Users, e \in Clubs |->
        LET x == build_event_feature_vector(UserRow(u), EventRow(e)).phi
        IN  [i \in 1..DimEvents |-> x[KeptOfEventVector[i]]]]

\* phi = build_feature_vector(user, club), x = build_event_feature_vector(user, ev)
Encode(fam, u, c) == IF fam = "clubs" THEN ClubVectors[u, c] ELSE EventVectors[u, c]

\* ------------------------------------------------------ encoder calls
\* user.year: missing, empty, a category as stored, with blanks and
\* capitals, and a year outside the categories.
Years == {None, <<>>, <<"f", "r", "e", "s", "h", "m", "a", "n">>, <<" ", "S", "e", "n", "i", "o", "r", " ">>, <<"g", "r", "a", "d">>}

\* user.interests: missing, one tag, two tags with a blank after the
\* comma.
UserInterests == {None, <<"sports">>, <<"sports", ",", " ", "gaming">>}

ClubTags ==
    {None, <<>>, <<"gaming", ",", "sports">>, <<"chess", ",", ",", " ", "faith", " ">>}

\* club.meeting_time, each with whether its day part names a day of the
\* week and whether its time part gives an hour of the day: missing,
\* empty, a single token, well-formed, an unknown day, a time that is no
\* number, hours out of range, a suffix after the hour, blanks around, an
\* empty hour, the parts in the other order.
Schedules ==
    {[text |-> None, day_ok |-> FALSE, hour_ok |-> FALSE],
     [text |-> <<>>, day_ok |-> FALSE, hour_ok |-> FALSE],
     [text |-> <<"M", "o", "n", "d", "a", "y">>, day_ok |-> TRUE, hour_ok |-> FALSE],
     [text |-> <<"M", "o", "n", " ", "1", "8", ":", "0", "0">>, day_ok |-> TRUE, hour_ok |-> TRUE],
     [text |-> <<"F", "u", "n", "d", "a", "y", " ", "9", ":", "3", "0">>, day_ok |-> FALSE, hour_ok |-> TRUE],
     [text |-> <<"T", "u", "e", " ", "n", "o", "o", "n">>, day_ok |-> TRUE, hour_ok |-> FALSE],
     [text |-> <<"w", "e", "d", " ", "2", "4", ":", "0", "0">>, day_ok |-> TRUE, hour_ok |-> FALSE],
     [text |-> <<"T", "H", "U", " ", "-", "3", ":", "0", "0">>, day_ok |-> TRUE, hour_ok |-> FALSE],
     [text |-> <<"F", "r", "i", " ", "7", "p", "m">>, day_ok |-> TRUE, hour_ok |-> FALSE],
     [text |-> <<" ", " ", "s", "a", "t", " ", " ", " ", "1", "_", "0", " ">>, day_ok |-> TRUE, hour_ok |-> TRUE],
     [text |-> <<"S", "u", "n", " ", ":", "3", "0">>, day_ok |-> TRUE, hour_ok |-> FALSE],
     [text |-> <<"1", "3", ":", "0", "0", " ", "M", "o", "n">>, day_ok |-> FALSE, hour_ok |-> FALSE]}

\* event.start_time: None or a datetime (weekday 0 = Monday, hour)
StartTimes ==
    {NoTime, [weekday |-> 0, hour |-> 9], [weekday |-> 4, hour |-> 17],
     [weekday |-> 5, hour |-> 22], [weekday |-> 6, hour |-> 23]}

\* The arguments of an encoder call: a user, a club, and an event of that
\* club or of none.
EncArgs ==
    {[pc |-> "args",
      user |-> [id |-> 1, year |-> y, interests |-> ui],
      club |-> [id |-> 1, tags |-> ct, meeting_time |-> sc.text],
      sched |-> sc,
      event |-> [id |-> 1,
                 club |-> IF hasClub
                          THEN [id |-> 1, tags |-> ct, meeting_time |-> sc.text]
                          ELSE [none |-> TRUE],
                 start_time |-> st],
      out |-> <<>>] :
        y \in Years, ui \in UserInterests, ct \in ClubTags, sc \in Schedules,
        hasClub \in BOOLEAN, st \in StartTimes}

\* phi = build_feature_vector(user, club)
EncodeClub ==
    /\ enc.pc = "args"
    /\ enc' = [enc EXCEPT !.pc = "club", !.out = build_feature_vector(enc.user, enc.club)]
    /\ UNCHANGED <<proc, GLOBAL_LINUCB_CLUBS, file, thread, nOps, boots, events, snap,
                   GLOBAL_LINUCB_EVENTS, fileEvents, rank, inst, sel, Swipe>>

\* x = build_event_feature_vector(user, ev)
EncodeEvent ==
    /\ enc.pc = "args"
    /\ enc' = [enc EXCEPT !.pc = "event",
                          !.out = build_event_feature_vector(enc.user, enc.event)]
    /\ UNCHANGED <<proc, GLOBAL_LINUCB_CLUBS, file, thread, nOps, boots, events, snap,
                   GLOBAL_LINUCB_EVENTS, fileEvents, rank, inst, sel, Swipe>>

\* day_vec, bucket_vec = _encode_meeting_time(club.meeting_time)
EncodeMeetingTime ==
    /\ enc.pc = "args"
    /\ enc' = [enc EXCEPT !.pc = "meeting_time",
                          !.out = _encode_meeting_time(enc.club.meeting_time)]
    /\ UNCHANGED <<proc, GLOBAL_LINUCB_CLUBS, file, thread, nOps, boots, events, snap,
                   GLOBAL_LINUCB_EVENTS, fileEvents, rank, inst, sel, Swipe>>

\* ------------------------------------------------------------- scores
Sgn(x) == IF x > 0 THEN 1 ELSE IF x < 0 THEN -1 ELSE 0

\* The integer part of the square root of n.
RECURSIVE Isqrt(_)
Isqrt(n) ==
    IF n < 2 THEN n
    ELSE LET s == 2 * Isqrt(n \div 4)
         IN  IF (s + 1) * (s + 1) <= n THEN s + 1 ELSE s

\* The sign of e - 2*d*sqrt(q), for e > 0, d > 0, q >= 0.
SignVsRoot(e, d, q) ==
    LET r == Isqrt(q)
        k == e \div (2 * d)
        rem == e % (2 * d)
    IN  IF k > r THEN 1
        ELSE IF k < r THEN -1
        ELSE Sgn(4 * d * r * rem + rem * rem - 4 * d * d * (q - r * r))

\* The sign of sqrt(p) - sqrt(q) - d, for p, q >= 0 and d >= 0.
SignRootDiff(p, q, d) ==
    LET e == p - q - d * d
    IN  IF d = 0 THEN Sgn(p - q)
        ELSE IF e < 0 THEN -1
        ELSE IF e = 0 THEN (IF q = 0 THEN 0 ELSE -1)
        ELSE SignVsRoot(e, d, q)

\* The sign of x - y for two scores mean + alpha * sqrt(var2) computed on
\* the same A: with D = det(A) > 0 both are (num + alpha*sqrt(vnum*D)) / D.
ScoreCompare(x, y) ==
    LET D == x.mean[2]
        p == x.alpha * x.alpha * x.var2[1] * D
        q == y.alpha * y.alpha * y.var2[1] * D
        d == y.mean[1] - x.mean[1]
    IN  IF d >= 0 THEN SignRootDiff(p, q, d) ELSE 0 - SignRootDiff(q, p, 0 - d)

\* The sign of x - y for two scores computed on any two matrices: with
\* D1, D2 the determinants, D1 * D2 * (x - y) is
\* sqrt(a1^2 v1 D1 D2^2) - sqrt(a2^2 v2 D2 D1^2) - (D1 n2 - D2 n1).
ScoreCompareAcross(x, y) ==
    LET D1 == x.mean[2]
        D2 == y.mean[2]
        p == x.alpha * x.alpha * x.var2[1] * D1 * D2 * D2
        q == y.alpha * y.alpha * y.var2[1] * D2 * D1 * D1
        d == D1 * y.mean[1] - D2 * x.mean[1]
    IN  IF d >= 0 THEN SignRootDiff(p, q, d) ELSE 0 - SignRootDiff(q, p, 0 - d)

\* ------------------------------------------------------------ ranking
\* Faulty variant: a pair goes before the pairs of equal score.
RECURSIVE InsertBeforeTies(_, _)
InsertBeforeTies(s, x) ==
    IF s = <<>> THEN <<x>>
    ELSE IF ScoreCompare(Head(s)[2], x[2]) > 0
         THEN <<Head(s)>> \o InsertBeforeTies(Tail(s), x)
         ELSE <<x>> \o s

\* The pair x put into the descending list s, after the pairs whose score
\* is greater than or equal to its own.
RECURSIVE InsertDesc(_, _)
InsertDesc(s, x) ==
    IF s = <<>> THEN <<x>>
    ELSE IF ScoreCompare(Head(s)[2], x[2]) >= 0
         THEN <<Head(s)>> \o InsertDesc(Tail(s), x)
         ELSE <<x>> \o s

\* scored.sort(key=lambda x: x[1], reverse=True): list.sort is stable, and
\* with reverse=True pairs of equal key keep their original order.
RECURSIVE SortDesc(_)
SortDesc(s) ==
    IF s = <<>> THEN <<>>
    ELSE InsertDesc(SortDesc(SubSeq(s, 1, Len(s) - 1)), s[Len(s)])

\* Faulty variant: one pair too few.
SliceBelow(s, k) ==
    SubSeq(s, 1, IF k - 1 < Len(s) THEN k - 1 ELSE Len(s))

\* scored[:top_k]; a negative top_k counts from the end.
Slice(s, k) ==
    IF k >= 0 THEN SubSeq(s, 1, IF k < Len(s) THEN k ELSE Len(s))
    ELSE SubSeq(s, 1, IF Len(s) + k > 0 THEN Len(s) + k ELSE 0)

\* Candidate lists: the clubs (or events) a caller found, each once.
CandidateLists ==
    {cs \in UNION {[1..n -> Clubs] : n \in 0..NClubs} :
        \A i, j \in 1..Len(cs) : i # j => cs[i] # cs[j]}


\* rank_clubs_with_linucb(user, clubs, top_k) or
\* rank_events_with_linucb(user, events, top_k) is called.
StartRank(fam, u, cs, k) ==
    /\ proc = "up"
    /\ AllIdle
    /\ nOps < MaxServeOps
    /\ nOps' = nOps + 1
    /\ rank' = [RankIdle EXCEPT !.pc = "entry", !.fam = fam, !.user = u,
                                !.cands = cs, !.top_k = k, !.obj = inst[fam]]
    /\ UNCHANGED <<proc, GLOBAL_LINUCB_CLUBS, GLOBAL_LINUCB_EVENTS, file, fileEvents,
                   thread, boots, events, snap, inst, enc, sel, Swipe>>

\* Faulty variant: the user's part of the vector is encoded before the
\* candidates are looked at.
RankEntryEncodingUser(r) ==
    IF r.cands = <<>>
    THEN [r EXCEPT !.pc = "done", !.res = "ok", !.out = <<>>, !.nEnc = 1]
    ELSE [r EXCEPT !.pc = "loop", !.i = 1, !.nEnc = 1]

\* scored = []; if not clubs: return scored
RankEntryResult(r) ==
    IF r.cands = <<>>
    THEN [r EXCEPT !.pc = "done", !.res = "ok", !.out = <<>>]
    ELSE [r EXCEPT !.pc = "loop", !.i = 1]

RankEntry ==
    /\ rank.pc = "entry"
    /\ rank' = RankEntryResult(rank)
    /\ UNCHANGED <<proc, GLOBAL_LINUCB_CLUBS, GLOBAL_LINUCB_EVENTS, file, fileEvents,
                   thread, nOps, boots, events, snap, inst, enc, sel, Swipe>>

\* The locals after one pass of the loop: phi = build_*_feature_vector(user,
\* item); score = GLOBAL_LINUCB_*.score(phi), which raises on a vector of
\* another length or a singular A; scored.append((item, float(score))).
RankLoopResult(r, m) ==
    LET c == r.cands[r.i]
        phi == Encode(r.fam, r.user, c)
        called == [r EXCEPT !.nEnc = @ + 1, !.nScore = @ + 1]
    IN  IF DimensionMismatch(phi, m)
        THEN [called EXCEPT !.pc = "raised", !.res = "ValueError"]
        ELSE IF Singular(m.A)
        THEN [called EXCEPT !.pc = "raised", !.res = "LinAlgError"]
        ELSE [called EXCEPT !.scored = Append(@, <<c, Score(m, phi)>>),
                            !.i = @ + 1,
                            !.pc = IF r.i = Len(r.cands) THEN "sort" ELSE "loop"]

\* Faulty variant: the shown candidate is learned from as a dislike.
RankScoreOneLearning ==
    LET phi == Encode(rank.fam, rank.user, rank.cands[rank.i])
    IN  /\ rank.pc = "loop"
        /\ rank' = RankLoopResult(rank, LiveModel(rank.fam))
        /\ GLOBAL_LINUCB_CLUBS' =
              IF rank.fam = "clubs" /\ ~DimensionMismatch(phi, GLOBAL_LINUCB_CLUBS)
              THEN [GLOBAL_LINUCB_CLUBS EXCEPT !.A = MatAdd(@, Outer(phi, phi))]
              ELSE GLOBAL_LINUCB_CLUBS
        /\ UNCHANGED <<proc, GLOBAL_LINUCB_EVENTS, file, fileEvents,
                       thread, nOps, boots, events, snap, inst, enc, sel, Swipe>>

\* for club in clubs: ... one pass.
RankScoreOne ==
    /\ rank.pc = "loop"
    /\ rank' = RankLoopResult(rank, LiveModel(rank.fam))
    /\ UNCHANGED <<proc, GLOBAL_LINUCB_CLUBS, GLOBAL_LINUCB_EVENTS, file, fileEvents,
                   thread, nOps, boots, events, snap, inst, enc, sel, Swipe>>

\* scored.sort(key=lambda x: x[1], reverse=True); return scored[:top_k]
RankSort ==
    /\ rank.pc = "sort"
    /\ rank' = [rank EXCEPT !.pc = "done", !.res = "ok",
                            !.out = Slice(SortDesc(rank.scored), rank.top_k)]
    /\ UNCHANGED <<proc, GLOBAL_LINUCB_CLUBS, GLOBAL_LINUCB_EVENTS, file, fileEvents,
                   thread, nOps, boots, events, snap, inst, enc, sel, Swipe>>

\* The caller has the list, or the exception.
RankReturn ==
    /\ rank.pc \in {"done", "raised"}
    /\ rank' = RankIdle
    /\ UNCHANGED <<proc, GLOBAL_LINUCB_CLUBS, GLOBAL_LINUCB_EVENTS, file, fileEvents,
                   thread, nOps, boots, events, snap, inst, enc, sel, Swipe>>

RankStep == RankEntry \/ RankScoreOne \/ RankSort \/ RankReturn

\* ------------------------------------------------- event down-selection
\* JSON values of the language model's reply: integers, strings, null and
\* lists.
JInt(n) == [t |-> "int", n |-> n, s |-> <<>>, items |-> <<>>]

JStr(chars) == [t |-> "str", n |-> 0, s |-> chars, items |-> <<>>]

JNull == [t |-> "null", n |-> 0, s |-> <<>>, items |-> <<>>]

JList(items) == [t |-> "list", n |-> 0, s |-> <<>>, items |-> items]

\* dict.get(key, default), a dict being the set of its <<key, value>> pairs
dict_get(d, key, default) ==
    IF \E kv \in d : kv[1] = key THEN (CHOOSE kv \in d : kv[1] = key)[2] ELSE default

\* int(i) of a JSON value: the integer itself, int() of a string, and
\* TypeError for null or a list.
int_of(x) ==
    IF x.t = "int" THEN [raised |-> "none", value |-> x.n]
    ELSE IF x.t = "str" THEN int(x.s)
    ELSE [raised |-> "TypeError"]

\* [int(i) for i in ids]: iterating a list gives its items, a string its
\* characters; a number or null is not iterable (TypeError).  The result
\* is the list of integers, or the first exception raised.
IntsOf(ids) ==
    IF ids.t \notin {"list", "str"} THEN [raised |-> "TypeError"]
    ELSE LET items == IF ids.t = "list" THEN ids.items
                      ELSE [i \in 1..Len(ids.s) |-> JStr(<<ids.s[i]>>)]
             bad == {i \in 1..Len(items) : int_of(items[i]).raised # "none"}
         IN  IF bad # {}
             THEN [raised |-> int_of(items[CHOOSE i \in bad : \A j \in bad : i <= j]).raised]
             ELSE [raised |-> "none",
                   value |-> [i \in 1..Len(items) |-> int_of(items[i]).value]]

\* for eid in selected_ids: append the candidate with that id, if any, and
\* stop once final_k are selected.  An event is written as its id.
RECURSIVE SelectLoop(_, _, _, _, _)
SelectLoop(selected_ids, i, candidates, final_k, selected_events) ==
    IF i > Len(selected_ids) THEN selected_events
    ELSE LET appended ==
                 IF \E j \in 1..Len(candidates) : candidates[j] = selected_ids[i]
                 THEN Append(selected_events, selected_ids[i])
                 ELSE selected_events
         IN  IF Len(appended) >= final_k THEN appended
             ELSE SelectLoop(selected_ids, i + 1, candidates, final_k, appended)

\* select_top_events_with_llm from the reply on: json.loads, data.get,
\* the conversion of the ids, the selection loop and the fallbacks to
\* candidates[:final_k].  raised is the exception that leaves the function.
select_from_reply(candidates, final_k, reply) ==
    IF reply.json = "invalid"
    THEN [raised |-> "none", out |-> Slice(candidates, final_k)]
    ELSE IF reply.json # "object"
    THEN [raised |-> "AttributeError", out |-> <<>>]
    ELSE LET ids == dict_get(reply.data, "selected_event_ids", JList(<<>>))
             selected_ids == IntsOf(ids)
         IN  IF selected_ids.raised \in {"TypeError", "ValueError"}
             THEN [raised |-> "none", out |-> Slice(candidates, final_k)]
             ELSE LET selected_events ==
                          SelectLoop(selected_ids.value, 1, candidates, final_k, <<>>)
                  IN  IF selected_events = <<>>
                      THEN [raised |-> "none", out |-> Slice(candidates, final_k)]
                      ELSE [raised |-> "none", out |-> selected_events]


\* What the reply may put in its list of ids: the id of an event in the
\* database or of none, an id as a string, a string that is no number,
\* null.
ReplyItems ==
    {JInt(e) : e \in 1..(NClubs + 1)} \cup {JStr(<<"2">>), JStr(<<"x">>), JNull}

\* The replies of the language model, as json.loads sees them: text that
\* is no JSON, JSON that is no object (a bare list, null), an object
\* without the key, with a number or a string under it, and with a list
\* of up to MaxTopK + 1 items.
Replies ==
    {[json |-> "invalid", data |-> {}], [json |-> "list", data |-> {}],
     [json |-> "null", data |-> {}], [json |-> "object", data |-> {}]}
    \cup {[json |-> "object", data |-> {<<"selected_event_ids", x>>}] :
             x \in {JInt(1), JNull, JStr(<<"2", "1">>)}}
    \cup {[json |-> "object", data |-> {<<"selected_event_ids", JList(items)>>}] :
             items \in UNION {[1..n -> ReplyItems] : n \in 0..(MaxTopK + 1)}}

\* The arguments of a select_top_events_with_llm call.
SelArgs ==
    {[pc |-> "args", candidates |-> cs, final_k |-> k, llm |-> 0,
      reply |-> [json |-> "none", data |-> {}], raised |-> "none", out |-> <<>>] :
        cs \in CandidateLists, k \in 1..MaxTopK}

\* if len(candidates) <= final_k: return candidates
SelectShortCircuit ==
    /\ sel.pc = "args"
    /\ Len(sel.candidates) <= sel.final_k
    /\ sel' = [sel EXCEPT !.pc = "returned", !.out = sel.candidates]
    /\ UNCHANGED <<proc, GLOBAL_LINUCB_CLUBS, file, thread, nOps, boots, events, snap,
                   GLOBAL_LINUCB_EVENTS, fileEvents, rank, inst, enc, Swipe>>

\* response = client.models.generate_content(...)
SelectAsk ==
    /\ sel.pc = "args"
    /\ Len(sel.candidates) > sel.final_k
    /\ sel' = [sel EXCEPT !.pc = "asked", !.llm = sel.llm + 1]
    /\ UNCHANGED <<proc, GLOBAL_LINUCB_CLUBS, file, thread, nOps, boots, events, snap,
                   GLOBAL_LINUCB_EVENTS, fileEvents, rank, inst, enc, Swipe>>

\* The reply arrives and the function runs to its return or raise.
SelectReply(reply) ==
    LET r == select_from_reply(sel.candidates, sel.final_k, reply)
    IN  /\ sel.pc = "asked"
        /\ sel' = [sel EXCEPT !.pc = IF r.raised = "none" THEN "returned" ELSE "raised",
                              !.reply = reply, !.raised = r.raised, !.out = r.out]
        /\ UNCHANGED <<proc, GLOBAL_LINUCB_CLUBS, file, thread, nOps, boots, events, snap,
                       GLOBAL_LINUCB_EVENTS, fileEvents, rank, inst, enc, Swipe>>

\* ------------------------------------------------------------ swipe tool
\* Faulty variant: the row is committed before the lookups are checked.
SwipeRowsAlwaysStored(rows, found, row) == Append(rows, row)

\* The Swipe table after record_swipe_with_linucb's lookups: a row is added
\* and committed when both the user and the club were found.
SwipeRowsAfter(rows, found, row) == IF found THEN Append(rows, row) ELSE rows

\* record_swipe_with_linucb(user_id, club_id, liked) up to its call of
\* update_global_linucb_from_swipe: the two lookups; without the user or
\* the club the call returns ok = False; else the Swipe row is committed
\* and the update of the club model begins.
RecordSwipe(t, user_id, club_id, liked) ==
    LET user_exists == user_id \in Users
        club_exists == club_id \in Clubs
        row == [user_id |-> user_id, club_id |-> club_id, liked |-> liked]
    IN  /\ proc = "up"
        /\ thread[t].pc = "idle"
        /\ rank.pc = "idle"
        /\ nOps < MaxOps
        /\ nOps' = nOps + 1
        /\ Swipe' = SwipeRowsAfter(Swipe, user_exists /\ club_exists, row)
        /\ thread' = [thread EXCEPT ![t] =
              IF user_exists /\ club_exists
              THEN [Idle EXCEPT !.pc = "check", !.op = "feedback",
                                !.phi = Encode("clubs", user_id, club_id),
                                !.reward = RewardOf(liked), !.liked = liked,
                                !.m0 = GLOBAL_LINUCB_CLUBS, !.obj = inst.clubs,
                                !.user_id = user_id, !.club_id = club_id]
              ELSE [Idle EXCEPT !.pc = "done", !.op = "swipe", !.res = "not found",
                                !.ret = [ok |-> FALSE, user_exists |-> user_exists,
                                         club_exists |-> club_exists],
                                !.user_id = user_id, !.club_id = club_id]]
        /\ UNCHANGED <<proc, GLOBAL_LINUCB_CLUBS, file, boots, events, snap,
                       GLOBAL_LINUCB_EVENTS, fileEvents, rank, inst, enc, sel>>

\* ------------------------------------------------- state files on disk
\* The file np.savez leaves after a completed save of the state st.
Archive(st, ev) ==
    [exists |-> TRUE, mem |-> st, cd_ok |-> TRUE, cd |-> st, ev |-> ev]

\* The model of dimension d after the events of the bag B.
ModelAfter(d, al, lam, B) ==
    [dim |-> d, alpha |-> al, lambda_reg |-> lam,
     A |-> ExpectedA(B, d, lam), b |-> ExpectedB(B, d)]

\* A like of the all-ones vector of length d.
OneLike(d) == OneEvent(Ones(d), 1)

\* What may lie at a state path when the process starts: nothing, a file
\* that is no archive, or an archive whose members need not agree with
\* one another or with the family: any recorded dim, any stored A and b of
\* either family's shape, any alpha, lambda_reg present or not.
DiskFiles ==
    {NoFile, Truncated}
    \cup {Archive([dim |-> d, A |-> Am, b |-> bv, alpha |-> al, lambda_reg |-> lam],
                  EmptyBag) :
            d \in {DimEvents, Dim},
            Am \in UNION {{Eye(n, 1), ExpectedA(OneLike(n), n, 1)} : n \in {DimEvents, Dim}},
            bv \in UNION {{Zeros(n), Ones(n)} : n \in {DimEvents, Dim}},
            al \in {1, 2},
            lam \in {-1, 1, 2}}

\* State files a run of this program left: none, the state after one
\* like under other hyperparameters than the defaults, and (for the clubs)
\* the file of the event model at the club path.
ServeFiles(fam) ==
    {NoFile,
     Archive(to_state(ModelAfter(ConfiguredDim(fam), 2, 2, OneLike(ConfiguredDim(fam)))),
             OneLike(ConfiguredDim(fam)))}
    \cup (IF fam = "clubs"
          THEN {Archive(to_state(FreshModel("events")), EmptyBag)}
          ELSE {})

InitStarting ==
    /\ proc = "starting"
    /\ GLOBAL_LINUCB_CLUBS = FreshModel("clubs")
    /\ GLOBAL_LINUCB_EVENTS = FreshModel("events")
    /\ thread = [t \in Threads |-> Idle]
    /\ rank = RankIdle
    /\ nOps = 0
    /\ boots = 0
    /\ events = EmptyBag
    /\ inst = [clubs |-> 0, events |-> 0, made |-> 0]
    /\ enc = EncIdle
    /\ sel = SelIdle
    /\ Swipe = <<>>

\* The process starts on whatever lies at the two state paths.
InitLoad ==
    /\ InitStarting
    /\ file \in DiskFiles
    /\ fileEvents \in DiskFiles
    /\ snap = [prev |-> from_state(file), new |-> from_state(file)]

\* The process starts on state files of earlier runs.
InitServe ==
    /\ InitStarting
    /\ file \in ServeFiles("clubs")
    /\ fileEvents \in ServeFiles("events")
    /\ snap = [prev |-> from_state(file), new |-> from_state(file)]

\* Nothing is being served; an encoder call with any arguments is to be made.
InitEncode ==
    /\ proc = "up"
    /\ GLOBAL_LINUCB_CLUBS = FreshModel("clubs")
    /\ GLOBAL_LINUCB_EVENTS = FreshModel("events")
    /\ file = NoFile
    /\ fileEvents = NoFile
    /\ thread = [t \in Threads |-> Idle]
    /\ rank = RankIdle
    /\ nOps = 0
    /\ boots = 0
    /\ events = EmptyBag
    /\ snap = [prev |-> from_state(NoFile), new |-> from_state(NoFile)]
    /\ inst = Constructed([made |-> 0])
    /\ enc \in EncArgs
    /\ sel = SelIdle
    /\ Swipe = <<>>

\* The events a model may have learned from before: none, one, or two
\* updates with vectors of Features and rewards 0 or 1.
EvidenceBags ==
    {EmptyBag}
    \cup {OneEvent(p, r) : p \in Features, r \in {0, 1}}
    \cup {OneEvent(p, r) (+) OneEvent(q, w) : p, q \in Features, r, w \in {0, 1}}

\* A model that update_from_features calls have brought from fresh to the
\* state after the events of some bag; nothing was saved.
InitEvidence ==
    /\ proc = "up"
    /\ events \in EvidenceBags
    /\ GLOBAL_LINUCB_CLUBS = ModelAfter(Dim, Alpha, LambdaReg, events)
    /\ GLOBAL_LINUCB_EVENTS = FreshModel("events")
    /\ file = NoFile
    /\ fileEvents = NoFile
    /\ thread = [t \in Threads |-> Idle]
    /\ rank = RankIdle
    /\ nOps = 0
    /\ boots = 0
    /\ snap = [prev |-> from_state(NoFile), new |-> from_state(NoFile)]
    /\ inst = Constructed([made |-> 0])
    /\ enc = EncIdle
    /\ sel = SelIdle
    /\ Swipe = <<>>

\* The scenario's fresh model: d = ScenarioDim, lambda = 1, alpha = 1.
InitScenario ==
    /\ proc = "up"
    /\ events = EmptyBag
    /\ GLOBAL_LINUCB_CLUBS = LinUCB(ScenarioDim, Alpha, LambdaReg)
    /\ GLOBAL_LINUCB_EVENTS = FreshModel("events")
    /\ file = NoFile
    /\ fileEvents = NoFile
    /\ thread = [t \in Threads |-> Idle]
    /\ rank = RankIdle
    /\ nOps = 0
    /\ boots = 0
    /\ snap = [prev |-> from_state(NoFile), new |-> from_state(NoFile)]
    /\ inst = Constructed([made |-> 0])
    /\ enc = EncIdle
    /\ sel = SelIdle
    /\ Swipe = <<>>

\* A select_top_events_with_llm call with any candidates is to be made.
InitSelect ==
    /\ proc = "up"
    /\ events = EmptyBag
    /\ GLOBAL_LINUCB_CLUBS = FreshModel("clubs")
    /\ GLOBAL_LINUCB_EVENTS = FreshModel("events")
    /\ file = NoFile
    /\ fileEvents = NoFile
    /\ thread = [t \in Threads |-> Idle]
    /\ rank = RankIdle
    /\ nOps = 0
    /\ boots = 0
    /\ snap = [prev |-> from_state(NoFile), new |-> from_state(NoFile)]
    /\ inst = Constructed([made |-> 0])
    /\ enc = EncIdle
    /\ sel \in SelArgs
    /\ Swipe = <<>>

\* The steps of update_from_features and save_state.
FeedbackStep(t) ==
    \/ UpdCheck(t)
    \/ UpdLoadA(t)
    \/ UpdStoreA(t)
    \/ UpdB(t)
    \/ SaveOpen(t)
    \/ SaveWriteA(t)
    \/ SaveWriteB(t)
    \/ SaveWriteMeta(t)
    \/ SaveClose(t)
    \/ Return(t)

\* The steps of score.
ScoreStep(t) ==
    \/ ScoreCheck(t)
    \/ ScoreSolve1(t)
    \/ ScoreSolve2(t)

Step(t) == FeedbackStep(t) \/ ScoreStep(t)

\* Sequential execution: one caller makes one call after another.
Caller == CHOOSE t \in Threads : TRUE

NextSeq ==
    \/ \E p \in AnyFeatures, liked \in BOOLEAN : StartFeedback(Caller, p, liked)
    \/ \E p \in AnyFeatures, r \in {0, 1} : StartUpdate(Caller, p, r)
    \/ \E p \in AnyFeatures : StartScore(Caller, p)
    \/ Reset
    \/ Restart
    \/ Step(Caller)

\* Concurrent execution: request threads interleave freely.
NextConc ==
    \/ \E t \in Threads, p \in AnyFeatures, liked \in BOOLEAN :
          nOps < MaxConcOps /\ StartFeedback(t, p, liked)
    \/ \E t \in Threads, p \in AnyFeatures :
          nOps < MaxConcOps /\ StartScore(t, p)
    \/ \E t \in Threads : Step(t)

\* Feedback events only, one after another, with restarts.
NextFeedback ==
    \/ \E p \in AnyFeatures, liked \in BOOLEAN : StartFeedback(Caller, p, liked)
    \/ Restart
    \/ FeedbackStep(Caller)

\* Module import alone.
NextLoad == Startup

\* Rankings of any candidate list, and scores, on the models the import
\* gave.
NextRank ==
    \/ Startup
    \/ \E fam \in Families, u \in Users, cs \in CandidateLists, k \in 0..MaxTopK :
          StartRank(fam, u, cs, k)
    \/ RankStep
    \/ \E u \in Users, c \in Clubs :
          nOps < MaxServeOps /\ StartScore(Caller, Encode("clubs", u, c))
    \/ ScoreStep(Caller)
    \/ Return(Caller)

\* One caller serves requests after the import: rankings of all clubs or
\* events, swipes, scores and resets, and the process is started again.
NextServe ==
    \/ Startup
    \/ \E fam \in Families, u \in Users, k \in 0..MaxTopK :
          \* Club.query.all(): the list recommend_clubs_with_linucb passes on
          StartRank(fam, u, [i \in 1..NClubs |-> i], k)
    \/ RankStep
    \/ \E u \in Users, c \in Clubs, liked \in BOOLEAN :
          nOps < MaxServeOps /\ StartFeedback(Caller, Encode("clubs", u, c), liked)
    \/ \E u \in Users, c \in Clubs :
          nOps < MaxServeOps /\ StartScore(Caller, Encode("clubs", u, c))
    \/ nOps < MaxServeOps /\ Reset
    \/ Restart
    \/ Step(Caller)

\* update_from_features calls, one after another.
NextEvidence ==
    \/ \E p \in Features, r \in {0, 1} : StartUpdate(Caller, p, r)
    \/ UpdCheck(Caller)
    \/ UpdLoadA(Caller)
    \/ UpdStoreA(Caller)
    \/ UpdB(Caller)
    \/ Return(Caller)

\* The scenario: updates with a unit vector and scores of a unit vector.
NextScenario ==
    \/ \E k \in 1..ScenarioDim, r \in {0, 1} :
          nOps < ScenarioOps /\ StartUpdate(Caller, UnitVec(ScenarioDim, k), r)
    \/ \E k \in 1..ScenarioDim :
          nOps < ScenarioOps /\ StartScore(Caller, UnitVec(ScenarioDim, k))
    \/ UpdCheck(Caller)
    \/ UpdLoadA(Caller)
    \/ UpdStoreA(Caller)
    \/ UpdB(Caller)
    \/ ScoreStep(Caller)
    \/ Return(Caller)

\* The down-selection of events, with any reply of the language model.
NextSelect ==
    \/ SelectShortCircuit
    \/ SelectAsk
    \/ \E reply \in Replies : SelectReply(reply)

\* Swipes through record_swipe_with_linucb, with ids that exist and ids
\* that do not, one call after another; the process may stop at any
\* point and be started again.
NextSwipe ==
    \/ \E user_id \in Users \cup {0}, club_id \in Clubs \cup {0}, liked \in BOOLEAN :
          nOps < MaxServeOps /\ RecordSwipe(Caller, user_id, club_id, liked)
    \/ Restart
    \/ FeedbackStep(Caller)

\* The encoder applied to its arguments.
NextEncode == EncodeClub \/ EncodeEvent \/ EncodeMeetingTime

Spec == Init /\ [][NextSeq]_vars

SpecEncode == InitEncode /\ [][NextEncode]_vars

SpecEvidence == InitEvidence /\ [][NextEvidence]_vars

SpecScenario == InitScenario /\ [][NextScenario]_vars

SpecSelect == InitSelect /\ [][NextSelect]_vars

SpecSwipe == Init /\ [][NextSwipe]_vars

SpecLoad == InitLoad /\ [][NextLoad]_vars

SpecRank == InitServe /\ [][NextRank]_vars

SpecServe == InitServe /\ [][NextServe]_vars

SpecFeedback == Init /\ [][NextFeedback]_vars

SpecConc == Init /\ [][NextConc]_vars

\* ------------------------------------------------------------- claims
M == GLOBAL_LINUCB_CLUBS

\* update_from_features is between its first write to A and its write to b.
Updating(t) == thread[t].pc \in {"add_load", "add_store", "add_b"}

\* Every call that was started has returned or raised.
AllCompleted == \A t \in Threads : thread[t].pc \in {"idle", "done", "raised"}

RECURSIVE InFlight(_)
InFlight(T) ==
    IF T = {} THEN EmptyBag
    ELSE LET t == CHOOSE x \in T : TRUE
         IN  (IF Updating(t) THEN OneEvent(thread[t].phi, thread[t].reward)
              ELSE EmptyBag) (+) InFlight(T \ {t})

\* (Am, bv) is the pair of statistics after some of the events of the bag B.
PairOfSome(Am, bv, B) ==
    \E S \in SubBag(B) :
        /\ Am = ExpectedA(S, M.dim, M.lambda_reg)
        /\ bv = ExpectedB(S, M.dim)

\* Accepted events the live model holds and a reader of the state file
\* would not get back.
Lost ==
    BagCardinality(events)
        - (IF Readable(file) THEN BagCardinality(file.ev) ELSE 0)

\* C1: no lost updates.  Once every concurrent feedback call on the club
\* model has completed, A equals lambda*I plus the sum of phi phi^T over the
\* accepted events and b equals the sum of reward*phi over them.
C1_NoLostUpdates ==
    AllCompleted =>
        /\ M.A = ExpectedA(events, M.dim, M.lambda_reg)
        /\ M.b = ExpectedB(events, M.dim)

\* C2: once every concurrent feedback call has completed, the state file
\* is a readable snapshot whose A and b equal the final A and b in memory.
C2_MirrorMatchesMemory ==
    (AllCompleted /\ file.exists) =>
        /\ Readable(file)
        /\ file.mem.A = M.A
        /\ file.mem.b = M.b

\* C3: at every point during and after a save_state call, reading the
\* state file gives the complete snapshot from before the save or the
\* complete new one, never an unreadable or partial one.
C3_SaveAtomicForReaders == from_state(file) \in {snap.prev, snap.new}

\* C4: a score call that runs beside an update reads a pair (A, b) that
\* is the pair before or after each update, and its two linear solves use
\* the same A.
C4_ScoreReadsNoTornWrite ==
    \A t \in Threads :
        (thread[t].op = "score" /\ thread[t].pc = "done") =>
            /\ thread[t].rdA1 = thread[t].rdA2
            /\ PairOfSome(thread[t].rdA1, thread[t].rdb1,
                          events (+) InFlight(Threads))

\* C5: after any sequential sequence of score, update and reset calls,
\* A = lambda*I + sum of phi phi^T and b = sum of reward*phi over the
\* successful updates since construction or the last reset.
C5_SufficientStatistics ==
    (proc = "up" /\ \A t \in Threads : ~Updating(t)) =>
        /\ M.A = ExpectedA(events, M.dim, M.lambda_reg)
        /\ M.b = ExpectedB(events, M.dim)

C5_Witness ==
    /\ AllIdle
    /\ BagCardinality(events) >= 2
    /\ \E e \in BagToSet(events) : e[2] = 0
    /\ \E e \in BagToSet(events) : e[2] = 1

\* C6: after any sequence of updates from A = lambda*I with lambda > 0,
\* A is symmetric and positive-definite, and no linear solve of score fails.
C6_PositiveDefinite ==
    /\ (proc = "up" /\ \A t \in Threads : ~Updating(t)) =>
          (M.lambda_reg > 0 /\ IsPositiveDefinite(M.A))
    /\ \A t \in Threads : thread[t].res # "LinAlgError"

C6_Witness ==
    \E t \in Threads :
        /\ thread[t].op = "score"
        /\ thread[t].pc = "done"
        /\ BagCardinality(events) >= 2

\* A call whose vector has another length than dim leaves its check by
\* raising ValueError, with the model, the file and the history untouched.
C7_Rejects(t) ==
    (/\ thread[t].pc = "check"
     /\ Len(thread[t].phi) # M.dim
     /\ thread'[t] # thread[t]
     /\ boots' = boots)
        => /\ thread'[t].pc = "raised"
           /\ thread'[t].res = "ValueError"
           /\ M' = M
           /\ file' = file
           /\ events' = events

\* A call that raised does nothing more: it only returns to its caller.
C7_RaisedDoesNothing(t) ==
    (thread[t].pc = "raised" /\ boots' = boots)
        => /\ thread'[t].pc \in {"raised", "idle"}
           /\ M' = M
           /\ file' = file

C8_SavedAfterUpdate ==
    \A t \in Threads :
        (thread[t].op = "feedback" /\ thread[t].pc = "done") =>
            /\ Readable(file)
            /\ file.mem = to_state(M)
            /\ file.ev = events
            /\ BagIn(<<thread[t].phi, thread[t].reward>>, events)

C8_Witness ==
    \E t \in Threads :
        /\ thread[t].op = "feedback"
        /\ thread[t].pc = "done"
        /\ thread[t].reward = 1
        /\ BagCardinality(events) >= 2

\* C9: in every reachable state at most one accepted reward event is in
\* the in-memory statistics and not in the state file, so a crash loses at
\* most one event.
C9_AtMostOneEventLost == proc = "up" => Lost <= 1

\* C10: save_state followed by from_state on the same path gives a model
\* with the same A, b, dim, alpha and lambda_reg, and so the same score for
\* every feature vector.
C10_RoundTrip ==
    \A t \in Threads :
        (thread[t].op = "feedback" /\ thread[t].pc = "done") =>
            LET loaded == from_state(file)
            IN  /\ loaded.kind = "model"
                /\ loaded.model = M
                /\ \A p \in Features : Score(loaded.model, p) = Score(M, p)

C10_Witness ==
    \E t \in Threads :
        /\ thread[t].op = "feedback"
        /\ thread[t].pc = "done"
        /\ M.b # Zeros(M.dim)
        /\ M.A # Eye(M.dim, M.lambda_reg)
        /\ boots = 1

\* The archive parses, its recorded dim is the family's configured
\* dimension, A is dim x dim and b has length dim.
Consistent(f, fam) ==
    /\ Readable(f)
    /\ f.mem.dim = ConfiguredDim(fam)
    /\ Len(f.mem.A) = f.mem.dim
    /\ \A i \in 1..Len(f.mem.A) : Len(f.mem.A[i]) = f.mem.dim
    /\ Len(f.mem.b) = f.mem.dim

\* C11: a state file that exists and does not parse, or whose recorded dim
\* disagrees with the shape of the stored A or b or with the family's
\* configured dimension, makes the load fail: the process never serves with
\* a model of that state.
C11_CorruptStateIsFatal ==
    \A fam \in Families :
        (StateFile(fam).exists /\ ~Consistent(StateFile(fam), fam)) => proc # "up"

\* The step is a module import that succeeded.
Imported == inst'.made # inst.made /\ proc' = "up"

C12_Loaded(fam) ==
    LET f == StateFile(fam)
        m == IF fam = "clubs" THEN GLOBAL_LINUCB_CLUBS' ELSE GLOBAL_LINUCB_EVENTS'
    IN  /\ ~f.exists =>
              m = [dim |-> IF fam = "clubs" THEN Dim ELSE DimEvents,
                   alpha |-> Alpha, lambda_reg |-> LambdaReg,
                   A |-> Eye(IF fam = "clubs" THEN Dim ELSE DimEvents, LambdaReg),
                   b |-> Zeros(IF fam = "clubs" THEN Dim ELSE DimEvents)]
        /\ f.exists =>
              /\ m.A = f.mem.A
              /\ m.b = f.mem.b
              /\ m.dim = f.mem.dim
              /\ m.alpha = f.mem.alpha
              /\ f.mem.lambda_reg # -1 => m.lambda_reg = f.mem.lambda_reg

\* C12: a missing state file is not an error.  An import with no file for
\* a family gives that family a fresh model, A = lambda*I, b = 0, with the
\* family's dim (38 clubs, 24 events), alpha 1.0 and lambda 1.0; with a
\* file, the live model has the persisted A, b, dim, alpha and lambda_reg;
\* and an import fails only when some file exists.
C12_MissingFileStartsFresh ==
    [][/\ Imported => \A fam \in Families : C12_Loaded(fam)
       /\ (inst'.made # inst.made /\ proc' = "failed") =>
              \E fam \in Families : StateFile(fam).exists]_vars

C12_Witness ==
    /\ proc = "up"
    /\ file.exists
    /\ GLOBAL_LINUCB_CLUBS.alpha = 2
    /\ GLOBAL_LINUCB_CLUBS.lambda_reg = 2
    /\ GLOBAL_LINUCB_CLUBS.b = Ones(Dim)
    /\ ~fileEvents.exists
    /\ GLOBAL_LINUCB_EVENTS.dim = DimEvents

\* A rank call has returned its list.
Ranked == rank.pc = "done"

\* Position of the candidate c in the list the caller passed.
Pos(c) == CHOOSE i \in 1..Len(rank.cands) : rank.cands[i] = c

\* The score of candidate c under the family's model.
ScoreOf(c) == Score(LiveModel(rank.fam), Encode(rank.fam, rank.user, c))

\* c1 comes before c2: its score is higher, or equal and c1 came first.
Before(c1, c2) ==
    \/ ScoreCompare(ScoreOf(c1), ScoreOf(c2)) > 0
    \/ ScoreCompare(ScoreOf(c1), ScoreOf(c2)) = 0 /\ Pos(c1) < Pos(c2)

Candidates == {rank.cands[i] : i \in 1..Len(rank.cands)}

Returned == {rank.out[i][1] : i \in 1..Len(rank.out)}

\* C13: for top_k >= 0 a rank call returns min(top_k, n) pairs, each an
\* input candidate with its score, none twice, in descending order of
\* score with candidates of equal score in input order, and every
\* candidate left out comes after every one returned.
C13_RankingOrder ==
    Ranked =>
        /\ Len(rank.out) =
              (IF rank.top_k < Len(rank.cands) THEN rank.top_k ELSE Len(rank.cands))
        /\ \A i \in 1..Len(rank.out) :
              /\ rank.out[i][1] \in Candidates
              /\ rank.out[i][2] = ScoreOf(rank.out[i][1])
        /\ \A i, j \in 1..Len(rank.out) :
              i < j => /\ rank.out[i][1] # rank.out[j][1]
                       /\ Before(rank.out[i][1], rank.out[j][1])
        /\ \A c \in Candidates \ Returned : \A d \in Returned : Before(d, c)

C13_Witness ==
    /\ Ranked
    /\ Len(rank.cands) = 3
    /\ Len(rank.out) = 2
    /\ rank.out[1][1] = rank.cands[2]
    /\ rank.out[2][1] = rank.cands[3]
    /\ ScoreCompare(rank.out[1][2], rank.out[2][2]) = 0
    /\ GLOBAL_LINUCB_CLUBS.b # Zeros(GLOBAL_LINUCB_CLUBS.dim)

\* The returned items, without their scores.
ReturnedItems == [i \in 1..Len(rank.out) |-> rank.out[i][1]]

\* C14: when the number of candidates is at most top_k, rank returns the
\* candidates in their original input order.
C14_ShortListKeepsInputOrder ==
    (Ranked /\ Len(rank.cands) <= rank.top_k) => ReturnedItems = rank.cands

\* C14 as the code has it: when the number of candidates is at most top_k,
\* rank returns all of them, ordered by descending score with equal scores
\* in input order.
C14_ShortListIsSorted ==
    (Ranked /\ Len(rank.cands) <= rank.top_k) =>
        /\ Len(rank.out) = Len(rank.cands)
        /\ Returned = Candidates
        /\ \A i \in 1..(Len(rank.out) - 1) :
              Before(rank.out[i][1], rank.out[i + 1][1])

C14_Witness ==
    /\ Ranked
    /\ Len(rank.cands) = 2
    /\ rank.top_k = 2
    /\ rank.out[1][1] = rank.cands[2]
    /\ rank.out[2][1] = rank.cands[1]

\* C15: ranking an empty candidate list returns an empty list, for any
\* user, family and top_k, and the call reaches neither the encoder nor
\* the model's score: it goes from its entry straight to its return.
C15_EmptyCandidates ==
    (rank.pc # "idle" /\ rank.cands = <<>>) =>
        /\ rank.pc \in {"entry", "done"}
        /\ rank.nEnc = 0
        /\ rank.nScore = 0
        /\ Ranked => rank.out = <<>>

C15_Witness ==
    /\ Ranked
    /\ rank.cands = <<>>
    /\ rank.out = <<>>
    /\ rank.top_k = MaxTopK
    /\ rank.fam = "clubs"
    /\ GLOBAL_LINUCB_CLUBS.dim # Dim

\* The step belongs to a rank call or to a score call.
ReadingStep ==
    \/ rank.pc # "idle"
    \/ rank'.pc # "idle"
    \/ \E t \in Threads : thread[t].op = "score" \/ thread'[t].op = "score"

\* C16: score, rank_clubs_with_linucb and rank_events_with_linucb are
\* read-only: no step of such a call changes A, b, dim, alpha or
\* lambda_reg of either model, or either state file.
C16_ScoringIsReadOnly ==
    [][(ReadingStep /\ inst' = inst) =>
          /\ GLOBAL_LINUCB_CLUBS' = GLOBAL_LINUCB_CLUBS
          /\ GLOBAL_LINUCB_EVENTS' = GLOBAL_LINUCB_EVENTS
          /\ file' = file
          /\ fileEvents' = fileEvents]_vars

C16_Witness ==
    /\ Ranked
    /\ rank.fam = "clubs"
    /\ Len(rank.out) = MaxTopK
    /\ nOps = 2
    /\ file.exists
    /\ fileEvents.exists
    /\ GLOBAL_LINUCB_CLUBS.b # Zeros(GLOBAL_LINUCB_CLUBS.dim)

\* update_from_club has returned inside update_global_linucb_from_swipe.
Updated(t) ==
    /\ thread[t].op = "feedback"
    /\ thread[t].pc \in {"save_open", "save_A", "save_b", "save_meta", "save_close", "done"}

\* C17: every update_global_linucb_from_swipe call that is accepted applies
\* exactly one update to the club model, with reward 1 for a like and 0 for
\* a dislike: A has grown by phi phi^T once, b by phi for a like and by
\* nothing for a dislike; a call that raised applied none.
C17_OneBinaryUpdatePerEvent ==
    \A t \in Threads :
        /\ Updated(t) =>
              /\ thread[t].reward = (IF thread[t].liked THEN 1 ELSE 0)
              /\ M.A = MatAdd(thread[t].m0.A, Outer(thread[t].phi, thread[t].phi))
              /\ thread[t].liked => M.b = VecAdd(thread[t].m0.b, thread[t].phi)
              /\ ~thread[t].liked => M.b = thread[t].m0.b
        /\ (thread[t].op = "feedback" /\ thread[t].pc = "raised") =>
              /\ M.A = thread[t].m0.A
              /\ M.b = thread[t].m0.b

C17_Witness ==
    \E t \in Threads :
        /\ Updated(t)
        /\ thread[t].pc = "done"
        /\ ~thread[t].liked
        /\ thread[t].phi = Ones(Dim)
        /\ M.b = thread[t].m0.b
        /\ M.b # Zeros(Dim)

\* The step belongs to an update_global_linucb_from_swipe call.
FeedbackStepTaken ==
    \E t \in Threads : thread[t].op = "feedback" \/ thread'[t].op = "feedback"

\* What a rank call of the family has in hand comes from the model m and
\* the family's encoder alone.
RanksWith(m) ==
    /\ \A i \in 1..Len(rank.scored) :
          rank.scored[i][2] = Score(m, Encode(rank.fam, rank.user, rank.scored[i][1]))
    /\ rank.res = "ValueError" =>
          Len(Encode(rank.fam, rank.user, rank.cands[rank.i])) # m.dim

C18_RankReadsOwnModel ==
    /\ rank.fam = "clubs" => RanksWith(GLOBAL_LINUCB_CLUBS)
    /\ rank.fam = "events" => RanksWith(GLOBAL_LINUCB_EVENTS)

\* C18: the families are independent.  No step of a club feedback call
\* changes the event model or the event state file, a club ranking is
\* computed from the club model alone and an event ranking from the event
\* model alone.
C18_FamilyIndependence ==
    /\ []C18_RankReadsOwnModel
    /\ [][(FeedbackStepTaken /\ inst' = inst) =>
              /\ GLOBAL_LINUCB_EVENTS' = GLOBAL_LINUCB_EVENTS
              /\ fileEvents' = fileEvents]_vars

C18_Witness ==
    /\ Ranked
    /\ rank.fam = "events"
    /\ Len(rank.out) = MaxTopK
    /\ fileEvents.exists
    /\ Readable(file)
    /\ BagCardinality(file.ev) = 2
    /\ GLOBAL_LINUCB_EVENTS.b # Zeros(DimEvents)

\* The step is taken by the running process (no import happens in it).
Serving == proc = "up" /\ boots' = boots

\* Every call in progress works on the object its family's global name
\* is bound to, and the two names are bound to different objects.
C19_CallsUseLive ==
    /\ proc = "up" => inst.clubs # inst.events
    /\ rank.pc # "idle" => rank.obj = inst[rank.fam]
    /\ \A t \in Threads : thread[t].pc # "idle" => thread[t].obj = inst.clubs

\* C19: one instance per family for the whole process.  After the import
\* no step creates an instance or binds a global name to another object,
\* and every rank call and every feedback call, for any user, works on the
\* object its family's name is bound to.
C19_SingletonPerFamily ==
    [][/\ Serving => inst' = inst
       /\ C19_CallsUseLive']_vars

C19_Witness ==
    /\ Ranked
    /\ boots = 1
    /\ nOps = 2
    /\ rank.fam = "clubs"
    /\ rank.user = 2
    /\ rank.obj = inst.clubs
    /\ inst.made = 4

\* C20: dim, alpha and lambda_reg are fixed at construction or load: no
\* step of a score, rank, update, reset or save changes them, for either
\* model.
C20_HyperparametersFixed ==
    [][Serving =>
          \A fam \in Families :
              /\ LiveModel(fam)'.dim = LiveModel(fam).dim
              /\ LiveModel(fam)'.alpha = LiveModel(fam).alpha
              /\ LiveModel(fam)'.lambda_reg = LiveModel(fam).lambda_reg]_vars

C20_Witness ==
    /\ proc = "up"
    /\ AllIdle
    /\ nOps = 2
    /\ M.lambda_reg = 2
    /\ M.alpha = 2
    /\ M.A = Eye(M.dim, 2)
    /\ Readable(file)
    /\ file.mem.A # M.A
    /\ BagCardinality(file.ev) = 2

\* What score(p) gives its caller on the model m: the error it raises or
\* the value it returns.
ScoreOutcome(m, p) ==
    IF DimensionMismatch(p, m) THEN [res |-> "ValueError"]
    ELSE IF Singular(m.A) THEN [res |-> "LinAlgError"]
    ELSE [res |-> "ok", ret |-> Score(m, p)]

\* The step is a call of reset on the club model.
ResetStep ==
    /\ proc = "up"
    /\ AllIdle
    /\ nOps' = nOps + 1
    /\ thread' = thread
    /\ rank' = rank

\* C21: reset, from any model state, sets A to lambda_reg * I and b to the
\* zero vector of length dim, keeps dim, alpha and lambda_reg, and the
\* model then scores every feature vector as LinUCB(dim, alpha, lambda_reg)
\* does.
C21_ResetGivesFreshModel ==
    [][ResetStep =>
          LET fresh == LinUCB(M.dim, M.alpha, M.lambda_reg)
          IN  /\ M'.A = Eye(M.dim, M.lambda_reg)
              /\ M'.b = Zeros(M.dim)
              /\ M' = fresh
              /\ \A p \in AnyFeatures :
                    ScoreOutcome(M', p) = ScoreOutcome(fresh, p)]_vars

\* reset was called on a loaded model (alpha 2, lambda_reg 2) that had
\* learned from a swipe: memory is back at lambda_reg * I and zero while
\* the state file still holds what was learned.
C21_Witness ==
    /\ proc = "up"
    /\ AllIdle
    /\ nOps = 2
    /\ events = EmptyBag
    /\ M = LinUCB(Dim, 2, 2)
    /\ Readable(file)
    /\ file.mem.b # M.b
    /\ BagCardinality(file.ev) = 2

\* C22: build_feature_vector returns a vector of length 38 and
\* build_event_feature_vector one of length 24, the dimensions of the
\* fresh club and event models, whatever year, interests, tags,
\* meeting_time, club and start_time are, missing ones included.
C22_EncoderDimension ==
    /\ enc.pc = "club" => enc.out.raised = "none" /\ Len(enc.out.phi) = DIM_CLUBS
    /\ enc.pc = "event" => enc.out.raised = "none" /\ Len(enc.out.phi) = DIM_EVENTS

\* A club vector was built for a user without year and a club without
\* tags and meeting time.
C22_Witness ==
    /\ enc.pc = "club"
    /\ enc.user.year = None
    /\ enc.club.tags = None
    /\ enc.club.meeting_time = None
    /\ Len(enc.out.phi) = 38

\* At most one entry of the block v is set.
AtMostOneSet(v) == Cardinality({i \in DOMAIN v : v[i] # 0}) <= 1

\* The day block and the time-bucket block for the schedule sc: at most
\* one entry set in each, and all zero where the part does not parse.
BlocksDegrade(sc, day_vec, bucket_vec) ==
    /\ Len(day_vec) = 7
    /\ Len(bucket_vec) = 3
    /\ AtMostOneSet(day_vec)
    /\ AtMostOneSet(bucket_vec)
    /\ ~sc.day_ok => day_vec = <<0, 0, 0, 0, 0, 0, 0>>
    /\ ~sc.hour_ok => bucket_vec = <<0, 0, 0>>

\* C23: for every meeting_time (missing, empty, a single token, an unknown
\* day, a time that is no number or out of range) _encode_meeting_time
\* raises nothing, sets at most one entry of the day block and at most
\* one of the time-bucket block, and gives an all-zero block for each
\* part that does not parse; build_feature_vector carries the blocks.
C23_MeetingTimeTotal ==
    /\ enc.pc = "meeting_time" =>
          /\ enc.out.raised = "none"
          /\ BlocksDegrade(enc.sched, enc.out.day_vec, enc.out.bucket_vec)
    /\ enc.pc = "club" =>
          /\ enc.out.raised = "none"
          /\ BlocksDegrade(enc.sched, SubSeq(enc.out.phi, 26, 32),
                           SubSeq(enc.out.phi, 33, 35))

\* "Fri 7pm" was encoded: Friday is set, no time bucket is.
C23_Witness ==
    /\ enc.pc = "meeting_time"
    /\ enc.sched.day_ok
    /\ ~enc.sched.hour_ok
    /\ Len(split(enc.club.meeting_time)) = 2
    /\ enc.out.day_vec = <<0, 0, 0, 0, 1, 0, 0>>
    /\ enc.out.bucket_vec = <<0, 0, 0>>

\* C24: an event whose start_time is None has an all-zero time block
\* (weekday, weekend, non-evening, evening).
C24_UnknownStartTimeIsZeroBlock ==
    (enc.pc = "event" /\ enc.event.start_time = NoTime) =>
        SubSeq(enc.out.phi, 21, 24) = <<0, 0, 0, 0>>

\* The positions at which every event vector has a 1.
EventBiasPositions ==
    {i \in 1..DIM_EVENTS :
        \A a \in EncArgs : build_event_feature_vector(a.user, a.event).phi[i] = 1}

\* C25: every vector of either family has the constant 1.0 at a fixed
\* position: the last one (index 37) of the club vector, and some
\* position of the event vector that is the same for all events.
C25_BiasComponent ==
    /\ enc.pc = "club" => enc.out.phi[38] = 1
    /\ enc.pc = "event" => \E i \in EventBiasPositions : enc.out.phi[i] = 1

\* update_from_features(phi, 1.0) has returned to thread t.
RewardedUpdateDone(t) ==
    /\ thread[t].op = "update"
    /\ thread[t].pc = "done"
    /\ thread[t].reward = 1

\* The mean term phi . theta_hat of thread t's vector before its call (on
\* the model at entry) and now, each as <<numerator, det A>>.
MeanBefore(t) == Score(thread[t].m0, thread[t].phi).mean

MeanNow(t) == Score(M, thread[t].phi).mean

\* x <= y for quotients with positive denominators.
QuotLeq(x, y) == x[1] * y[2] <= y[1] * x[2]

\* C26 as stated: after update(phi, 1.0) the mean term of that phi is at
\* least what it was before the update, on every model reached from a
\* fresh one by updates with rewards 0 and 1.
C26_MeanNeverDecreases ==
    \A t \in Threads :
        RewardedUpdateDone(t) => QuotLeq(MeanBefore(t), MeanNow(t))

\* C26 amended: the mean term does not decrease when it was at most 1
\* (the reward) before the update; it moves toward 1 and not past it.
C26_MeanMovesTowardReward ==
    \A t \in Threads :
        (RewardedUpdateDone(t) /\ QuotLeq(MeanBefore(t), <<1, 1>>)) =>
            /\ QuotLeq(MeanBefore(t), MeanNow(t))
            /\ QuotLeq(MeanNow(t), <<1, 1>>)

\* A model that had learned from three events was updated with the
\* all-ones vector and reward 1, and the mean term of that vector rose.
C26_Witness ==
    \E t \in Threads :
        /\ RewardedUpdateDone(t)
        /\ thread[t].phi = Ones(Dim)
        /\ BagCardinality(events) = 4
        /\ QuotLeq(MeanBefore(t), <<1, 1>>)
        /\ ~QuotLeq(MeanNow(t), MeanBefore(t))

\* score(phi) has returned to thread t on a model whose only update so
\* far was update(phi, 1.0) with that same vector.
ScoredAfterOwnLike(t) ==
    /\ thread[t].op = "score"
    /\ thread[t].pc = "done"
    /\ events = OneEvent(thread[t].phi, 1)

\* C27: on a fresh model with d = 4, lambda = 1, alpha = 1, the score of
\* [1,0,0,0] after update([1,0,0,0], 1.0) is strictly greater than its
\* score on a fresh model with the same hyperparameters (and so for each
\* unit vector).
C27_PositiveFeedbackRaisesScore ==
    \A t \in Threads :
        ScoredAfterOwnLike(t) =>
            ScoreCompareAcross(thread[t].ret,
                               Score(LinUCB(ScenarioDim, Alpha, LambdaReg),
                                     thread[t].phi)) > 0

\* score([1,0,0,0]) returned 1/2 + sqrt(1/2) after update([1,0,0,0], 1.0).
C27_Witness ==
    \E t \in Threads :
        /\ ScoredAfterOwnLike(t)
        /\ thread[t].phi = UnitVec(ScenarioDim, 1)
        /\ M.A[1][1] = 2
        /\ thread[t].ret.mean = <<1, 2>>
        /\ thread[t].ret.var2 = <<1, 2>>

\* The reply names a candidate: some item of its id list (or, the ids
\* being one string, some character of it), read as an integer, is the id
\* of a candidate.
NamesCandidate(reply, candidates) ==
    /\ reply.json = "object"
    /\ \E kv \in reply.data :
          /\ kv[1] = "selected_event_ids"
          /\ \/ /\ kv[2].t = "list"
                /\ \E i \in 1..Len(kv[2].items) :
                      LET n == int_of(kv[2].items[i])
                      IN  /\ n.raised = "none"
                          /\ \E j \in 1..Len(candidates) : candidates[j] = n.value
             \/ /\ kv[2].t = "str"
                /\ \E i \in 1..Len(kv[2].s) :
                      LET n == int(<<kv[2].s[i]>>)
                      IN  /\ n.raised = "none"
                          /\ \E j \in 1..Len(candidates) : candidates[j] = n.value

\* C28: with len(candidates) <= final_k the candidates are returned as
\* they are and the language model is not consulted; otherwise, whatever
\* the reply, the function returns a non-empty list of at most final_k
\* events, each one of the candidates, and the first final_k candidates
\* in input order when the reply names no candidate.
C28_SelectionBounded ==
    /\ (sel.pc # "args" /\ Len(sel.candidates) <= sel.final_k) =>
          /\ sel.pc = "returned"
          /\ sel.out = sel.candidates
          /\ sel.llm = 0
    /\ (sel.pc \in {"returned", "raised"} /\ Len(sel.candidates) > sel.final_k) =>
          /\ sel.pc = "returned"
          /\ sel.out # <<>>
          /\ Len(sel.out) <= sel.final_k
          /\ \A i \in 1..Len(sel.out) :
                \E j \in 1..Len(sel.candidates) : sel.candidates[j] = sel.out[i]
          /\ ~NamesCandidate(sel.reply, sel.candidates) =>
                sel.out = SubSeq(sel.candidates, 1, sel.final_k)

\* C29: whenever no call is in progress, the number of committed Swipe
\* rows equals the number of updates applied to the club model and the
\* number of updates the saved state holds, also after calls that failed
\* part-way.
C29_SwipesMatchUpdates ==
    (proc = "up" /\ AllIdle) =>
        /\ Len(Swipe) = BagCardinality(events)
        /\ Len(Swipe) = BagCardinality(file.ev)

\* The step starts a record_swipe_with_linucb call in thread t.
StartsSwipe(t) == thread[t].pc = "idle" /\ thread'[t].pc # "idle"

\* C30: a swipe whose user id or club id does not exist returns ok =
\* False, stores no Swipe row, applies no update to the club model and
\* saves nothing, and the rejected call does nothing afterwards.
C30_UnknownIdsRejected ==
    [][\A t \in Threads :
          /\ (StartsSwipe(t)
                /\ (thread'[t].user_id \notin Users \/ thread'[t].club_id \notin Clubs)) =>
                /\ thread'[t].pc = "done"
                /\ thread'[t].ret.ok = FALSE
                /\ Swipe' = Swipe
                /\ GLOBAL_LINUCB_CLUBS' = GLOBAL_LINUCB_CLUBS
                /\ events' = events
                /\ file' = file
          /\ (thread[t].op = "swipe" /\ inst' = inst) =>
                /\ thread'[t].pc = "idle"
                /\ Swipe' = Swipe
                /\ GLOBAL_LINUCB_CLUBS' = GLOBAL_LINUCB_CLUBS
                /\ events' = events
                /\ file' = file]_vars

\* After a stored swipe, a swipe on a club that does not exist was
\* rejected: one row, one update, the state file as it was saved.
C30_Witness ==
    \E t \in Threads :
        /\ thread[t].op = "swipe"
        /\ thread[t].pc = "done"
        /\ thread[t].user_id \in Users
        /\ thread[t].club_id \notin Clubs
        /\ thread[t].ret = [ok |-> FALSE, user_exists |-> TRUE, club_exists |-> FALSE]
        /\ Len(Swipe) = 1
        /\ BagCardinality(events) = 1
        /\ Readable(file)
        /\ file.mem = to_state(M)

====
